---- MODULE Spec2Model ----
(***************************************************************************)
(* A model of the NFL pick'em dashboard (PoolHost_dashboard.py) and of the *)
(* workbook ingestion script (tranform_data.py).                           *)
(*                                                                         *)
(* Units.  Point spreads as the backend returns them are integers in       *)
(* hundredths of a point; after round(1) they are integers in tenths.      *)
(* Margins and the luck threshold are in tenths of a point.  Pick shares   *)
(* (home_pick_pct) are in tenths of a percent, 0..1000.  A quotient is     *)
(* kept exact, as a record [kind, num, den]; the float results nan and inf *)
(* are their own kinds.  An optional value (None / NaN in a column) is the *)
(* empty sequence, a present value v is <<v>>.                             *)
(*                                                                         *)
(* The Streamlit script is rerun top to bottom on every interaction; a     *)
(* run is modelled as the sequence of its steps, pc naming the position.   *)
(***************************************************************************)
EXTENDS Integers, Sequences, FiniteSets, TLC

VARIABLES
    pc,             \* position of the script run
    error,          \* the exception that ended the run, "none" when there is none
    messages,       \* the user-visible messages (st.error / st.info / st.warning) of the run
    df_raw,         \* result of get_raw_spread_data: [columns, rows]
    raw_cached,     \* st.cache_data holds a result of get_raw_spread_data
    spread_filter,  \* the slider's (lo, hi), tenths of a point
    bin_size,       \* the select_slider's bucket width, tenths of a point
    df_filtered,    \* Tab 1: the filtered copy handed to rebin_data
    df_display,     \* Tab 1: what rebin_data returned
    home_pick_pct,  \* Tab 2: a game's home_pick_pct cell, tenths of a percent
    herd_status,    \* Tab 2: get_herd_status of the game's home picker and away picker
    cat_home,       \* Tab 2: the pool baseline's category of the game's home side
    cat_away,       \* Tab 2: the pool baseline's category of the game's away side
    luck_threshold, \* Tab 2: the Close Call Threshold slider, tenths of a point
    user_margin,    \* Tab 2: a game's user_margin cell, tenths of a point
    luck_bucket,    \* Tab 2: classify_luck of that margin
    user_margins,   \* Tab 2: the user_margin column of df
    luck_buckets,   \* Tab 2: the luck_bucket column of df
    luck_counts,    \* Tab 2: per bucket that occurs, its Count and Percent
    df_mnf,         \* Tab 2: the user's rows of designated point-total games
    mnf_stats,      \* Tab 2: the point-total summary, Null when none is shown
    calls,          \* the remote calls of the run: [q, batch, attempts, failed, msg, empty]
    returned,       \* what each fetch function returned: <<function, "data" | "empty">>
    selected_user,  \* the Select User box: "none", "median" or "named"
    client,         \* supabase_client is not None
    User,           \* the User table of the backend: a set of usernames
    user_list,      \* what get_unique_users returned, Null before the call
    game,           \* the backend's game table, game_id being the row's index
    user_id,        \* the argument of get_user_performance_data: "none", "median", "named"
    df_user,        \* Tab 2: df, the per-user table, Null before the call
    df_user_stats,  \* Tab 2: the team breakdown, one record per team, Null before
    sheet_col,      \* uploader: the cells of one game column of a week sheet
    game_payload,   \* uploader: the game record written for it, Null when none
    store,          \* the backend's data, as a version number that updates bump
    cache,          \* st.cache_data: per cached function and key, Null or the result
    fetched,        \* how many remote fetches each cached function has made per key
    selection,      \* the (seasons, user) of the current interaction
    df_global_stats, \* what get_global_game_stats returned: rows of (home_margin, home_pick_pct)
    df_pool_luck,   \* Tab 2: the pool's luck baseline, Null before it is built
    df_pool_herd,   \* Tab 2: the pool's herd baseline, Null before it is built
    week_sheet,     \* uploader run: the Week sheet being processed, Null outside a run
    pick,           \* the backend's pick table: a set of pick records
    users_upsert,   \* uploader run: "none", "ok" or "fail", the User upsert of the run
    game_upserts,   \* uploader run: per game column so far, its outcome and the id returned
    col_to_game_id, \* uploader run: col_to_game_id of the sheet
    picks_to_upsert \* uploader run: the batch sent to the pick table, Null before

tab1vars == <<df_raw, raw_cached, spread_filter, bin_size, df_filtered, df_display>>
herdvars == <<home_pick_pct, herd_status, cat_home, cat_away>>
luckvars == <<luck_threshold, user_margin, luck_bucket, user_margins, luck_buckets,
             luck_counts>>
mnfvars == <<df_mnf, mnf_stats>>
fetchvars == <<calls, returned, selected_user>>
rostervars == <<client, User, user_list>>
uservars == <<game, user_id, df_user, df_user_stats>>
uploadvars == <<sheet_col, game_payload>>
cachevars == <<store, cache, fetched, selection>>
poolvars == <<df_global_stats, df_pool_luck, df_pool_herd>>
runvars == <<week_sheet, pick, users_upsert, game_upserts, col_to_game_id, picks_to_upsert>>
vars == <<pc, error, messages, tab1vars, herdvars, luckvars, mnfvars, fetchvars,
          rostervars, uservars, uploadvars, cachevars, poolvars, runvars>>

\* ------------------------------------------------------------ bounds
\* the longest table the backend returns in the model
MaxRows == 2
\* the largest |margin| the model classifies, tenths of a point
MaxMargin == 105
\* the most designated point-total games of the user's table
MaxMnf == 2
\* the most batches of game ids get_global_herd_distribution sends
MaxBatches == 2
\* the most username cells a workbook holds
MaxCells == 2
\* the most games the backend's game table holds
MaxGames == 2
\* the most updates the backend's data receives
MaxVersion == 2
\* the most rows of the participant's table whose luck is counted
MaxPicks == 3
\* the largest spread of the spread grid, tenths of a point
MaxSpread == 52
\* the most rows of the global game stats
MaxStats == 2
\* the most participant rows of a Week sheet
MaxSheetRows == 2

\* ------------------------------------------------------------ optional values and quotients
Null == <<>>
Some(v) == <<v>>
IsNull(x) == x = <<>>
Val(x) == x[1]

Abs(x) == IF x < 0 THEN 0 - x ELSE x

NaN == [kind |-> "nan"]
Inf == [kind |-> "inf"]
Rat(n, d) == [kind |-> "num", num |-> n, den |-> d]
IsNum(q) == q.kind = "num"

\* float division n / d of two integers (numpy: 0/0 is nan, x/0 is inf, no exception)
FloatDiv(n, d) ==
    IF d = 0 THEN (IF n = 0 THEN NaN ELSE Inf)
    ELSE IF d < 0 THEN Rat(0 - n, 0 - d) ELSE Rat(n, d)

\* comparisons of a quotient with an integer; every comparison with nan is false
RatIsZero(q) == IsNum(q) /\ q.num = 0
RatGE(q, k) == IsNum(q) /\ q.num >= k * q.den
RatLE(q, k) == IsNum(q) /\ q.num <= k * q.den

\* the sum of f[i] over a sequence
RECURSIVE SumSeq(_, _)
SumSeq(s, field) ==
    IF s = <<>> THEN 0 ELSE s[1][field] + SumSeq(Tail(s), field)

\* the elements of a finite set of integers, ascending
RECURSIVE SortedSeq(_)
SortedSeq(S) ==
    IF S = {} THEN <<>>
    ELSE LET m == CHOOSE x \in S : \A y \in S : x <= y
         IN <<m>> \o SortedSeq(S \ {m})

SetMin(S) == CHOOSE x \in S : \A y \in S : x <= y
SetMax(S) == CHOOSE x \in S : \A y \in S : x >= y

\* ------------------------------------------------------------ data frames
EmptyFrame == [columns |-> {}, rows |-> <<>>]
IsEmpty(df) == df.rows = <<>>

RawColumns == {"home_spread", "total_games", "total_covers",
               "total_home_picks", "total_picks_made"}

\* the variable groups as they are while another part of the script is examined
Tab1Idle ==
    /\ df_raw = EmptyFrame
    /\ raw_cached = FALSE
    /\ spread_filter = <<-100, 100>>
    /\ bin_size = 5
    /\ df_filtered = EmptyFrame
    /\ df_display = EmptyFrame

HerdIdle ==
    /\ home_pick_pct = Null
    /\ herd_status = Null
    /\ cat_home = Null
    /\ cat_away = Null

LuckIdle ==
    /\ luck_threshold = 25
    /\ user_margin = Null
    /\ luck_bucket = Null
    /\ user_margins = <<>>
    /\ luck_buckets = <<>>
    /\ luck_counts = Null

MnfIdle ==
    /\ df_mnf = <<>>
    /\ mnf_stats = Null

FetchIdle ==
    /\ calls = {}
    /\ returned = {}
    /\ selected_user = "none"

RosterIdle ==
    /\ client = TRUE
    /\ User = {}
    /\ user_list = Null

UserIdle ==
    /\ game = <<>>
    /\ user_id = "none"
    /\ df_user = Null
    /\ df_user_stats = Null

UploadIdle ==
    /\ sheet_col = Null
    /\ game_payload = Null

RunIdle ==
    /\ week_sheet = Null
    /\ pick = {}
    /\ users_upsert = "none"
    /\ game_upserts = <<>>
    /\ col_to_game_id = <<>>
    /\ picks_to_upsert = Null

PoolIdle ==
    /\ df_global_stats = <<>>
    /\ df_pool_luck = Null
    /\ df_pool_herd = Null

CacheIdle ==
    /\ store = 0
    /\ cache = <<>>
    /\ fetched = <<>>
    /\ selection = Null

\* what the get_spread_stats RPC can put in a row's home_spread cell: a JSON
\* number, a numeric string, or null (v in hundredths of a point)
RpcSpreads == {[t |-> "num", v |-> -300], [t |-> "str", v |-> -260],
               [t |-> "num", v |-> 296], [t |-> "null", v |-> 0]}

\* (total_games, total_covers, total_home_picks, total_picks_made) of a row
RpcCounters == {<<1, 1, 1, 1>>, <<1, 0, 0, 1>>, <<1, 0, 0, 0>>,
                <<0, 0, 0, 0>>, <<1, 0, 2, 1>>}

RpcRows == {[home_spread |-> s, total_games |-> c[1], total_covers |-> c[2],
             total_home_picks |-> c[3], total_picks_made |-> c[4]] :
            s \in RpcSpreads, c \in RpcCounters}

RpcTables == UNION {[1..n -> RpcRows] : n \in 0..MaxRows}

\* numpy round(1): hundredths to tenths, a tie going to the even tenth
Round1(h) ==
    LET q == h \div 10
        r == h % 10
    IN IF r < 5 THEN q
       ELSE IF r > 5 THEN q + 1
       ELSE IF q % 2 = 0 THEN q ELSE q + 1

\* the bucket widths of the select_slider, tenths of a point
BinSizes == {5, 10, 15, 20, 25, 30, 35, 40, 50}

\* pd.to_numeric(errors='coerce') of one cell
to_numeric(cell) ==
    IF cell.t \in {"num", "str"} THEN Some(cell.v) ELSE Null

\* get_raw_spread_data, given what the backend did: "ok" with a table, or "fail"
get_raw_spread_data(outcome, table) ==
    IF outcome = "fail" THEN [df |-> EmptyFrame, msg |-> {"Error fetching spread stats"}]
    ELSE IF table = <<>> THEN [df |-> EmptyFrame, msg |-> {}]
    ELSE [df |-> [columns |-> RawColumns,
                  rows |-> [i \in DOMAIN table |->
                              [table[i] EXCEPT !.home_spread = to_numeric(@)]]],
          msg |-> {}]

\* the non-null home_spread values of a frame
Spreads(df) == {Val(df.rows[i].home_spread) :
                i \in {j \in DOMAIN df.rows : ~IsNull(df.rows[j].home_spread)}}

\* a mutant of get_spread_range_from_data: both ends are truncated toward zero
get_spread_range_truncated(df) ==
    IF IsEmpty(df) THEN [err |-> "none", lo |-> -100, hi |-> 100]
    ELSE IF Spreads(df) = {} THEN [err |-> "ValueError", lo |-> 0, hi |-> 0]
    ELSE LET Trunc(h) == IF h >= 0 THEN (h \div 50) * 5 ELSE 0 - (((0 - h) \div 50) * 5)
         IN [err |-> "none",
             lo |-> Trunc(SetMin(Spreads(df))),
             hi |-> Trunc(SetMax(Spreads(df)))]

\* get_spread_range_from_data: (min_clean, max_clean) in tenths; math.floor of
\* the NaN minimum of an all-null column raises ValueError
get_spread_range_from_data(df) ==
    IF IsEmpty(df) THEN [err |-> "none", lo |-> -100, hi |-> 100]
    ELSE IF Spreads(df) = {} THEN [err |-> "ValueError", lo |-> 0, hi |-> 0]
    ELSE [err |-> "none",
          lo |-> (SetMin(Spreads(df)) \div 50) * 5,
          hi |-> (0 - ((0 - SetMax(Spreads(df))) \div 50)) * 5]

\* the slider positions the model tries between min_val and max_val
SliderStops(lo, hi) == {x \in {lo, hi, -25, 5} : lo <= x /\ x <= hi}
SliderChoices(lo, hi) ==
    {<<a, b>> \in SliderStops(lo, hi) \X SliderStops(lo, hi) : a <= b}

\* df_raw[(round(spread) >= lo) & (round(spread) <= hi)].copy(); a NaN spread
\* compares false and is dropped
InRange(row, flt) ==
    /\ ~IsNull(row.home_spread)
    /\ Round1(Val(row.home_spread)) >= flt[1]
    /\ Round1(Val(row.home_spread)) <= flt[2]

FilterRows(df, flt) ==
    LET Keep(row) == InRange(row, flt)
    IN [columns |-> df.columns, rows |-> SelectSeq(df.rows, Keep)]

\* ------------------------------------------------------------ rebin_data
\* a mutant of bin_floor: the quotient is truncated toward zero, not floored
bin_floor_truncated(spread, w) ==
    IF IsNull(spread) THEN Null
    ELSE LET r == Round1(Val(spread))
         IN Some((IF r >= 0 THEN r \div w ELSE 0 - ((0 - r) \div w)) * w)

\* ((round(spread, 1) // bin_size) * bin_size).round(1); NaN stays NaN
bin_floor(spread, w) ==
    IF IsNull(spread) THEN Null ELSE Some((Round1(Val(spread)) \div w) * w)

\* f"{x:+.1f}" of a value in tenths: sign, whole part, tenth
FmtSigned(x) == <<IF x < 0 THEN "-" ELSE "+", Abs(x) \div 10, Abs(x) % 10>>

\* a mutant of spread_bin: the label ends at the next bucket's floor
spread_bin_closed(bf, w) ==
    IF w = 5 THEN <<FmtSigned(bf)>>
    ELSE <<FmtSigned(bf), "to", FmtSigned(bf + w)>>

\* the spread_bin label of a bucket
spread_bin(bf, w) ==
    IF w = 5 THEN <<FmtSigned(bf)>>
    ELSE <<FmtSigned(bf), "to", FmtSigned(bf + w - 1)>>

\* Series.replace(0, 1) of a denominator
Replace01(d) == IF d = 0 THEN 1 ELSE d

\* a mutant of Pct: the denominator is used as it is
PctNoReplace(numer, denom) == FloatDiv(numer * 100, denom)

\* (numer / denom.replace(0, 1)) * 100
Pct(numer, denom) == FloatDiv(numer * 100, Replace01(denom))

\* a mutant of GroupSum: the aggregation takes the group's first row
GroupFirst(rows, field) == rows[1][field]

\* groupby(...).agg({field: 'sum'}) over the rows of one group
GroupSum(rows, field) == SumSeq(rows, field)

\* the output row of the group whose bin_floor is key
GroupRow(rows, key, w) ==
    LET InGroup(r) == r.bin_floor = Some(key)
        g == SelectSeq(rows, InGroup)
        tg == GroupSum(g, "total_games")
        tc == GroupSum(g, "total_covers")
        thp == GroupSum(g, "total_home_picks")
        tpm == GroupSum(g, "total_picks_made")
    IN [bin_floor |-> key,
        total_games |-> tg, total_covers |-> tc,
        total_home_picks |-> thp, total_picks_made |-> tpm,
        home_spread |-> SetMin({Val(g[i].home_spread) : i \in DOMAIN g}),
        spread_bin |-> spread_bin(key, w),
        pct_picks_home |-> Pct(thp, tpm),
        pct_games_home_covered |-> Pct(tc, tg)]

GroupedColumns == {"bin_floor", "total_games", "total_covers", "total_home_picks",
                   "total_picks_made", "home_spread", "spread_bin",
                   "pct_picks_home", "pct_games_home_covered"}

\* rebin_data(df, bin_size): out is the frame returned, arg is the frame passed
\* in as the call leaves it (the bin_floor column is assigned on it in place).
\* groupby sorts the keys and drops the rows whose key is NaN.
rebin_data(df, w) ==
    IF IsEmpty(df) THEN [out |-> df, arg |-> df]
    ELSE LET binned == [i \in DOMAIN df.rows |->
                          df.rows[i] @@ [bin_floor |-> bin_floor(df.rows[i].home_spread, w)]]
             keys == SortedSeq({Val(binned[i].bin_floor) :
                                i \in {j \in DOMAIN binned : ~IsNull(binned[j].bin_floor)}})
         IN [out |-> [columns |-> GroupedColumns,
                      rows |-> [k \in DOMAIN keys |-> GroupRow(binned, keys[k], w)]],
             arg |-> [columns |-> df.columns \cup {"bin_floor"}, rows |-> binned]]

\* DataFrame.melt raises KeyError when an id_vars or value_vars column is missing
MeltColumns == {"spread_bin", "home_spread", "pct_picks_home", "pct_games_home_covered"}
melt_error(df) == IF MeltColumns \subseteq df.columns THEN "none" ELSE "KeyError"

\* ------------------------------------------------------------ Tab 1: spread analysis
InitTab1 ==
    /\ pc = "start"
    /\ error = "none"
    /\ messages = {}
    /\ Tab1Idle /\ HerdIdle /\ LuckIdle /\ MnfIdle /\ FetchIdle /\ RosterIdle
    /\ UserIdle /\ UploadIdle /\ CacheIdle /\ PoolIdle /\ RunIdle

\* df_raw = get_raw_spread_data(selected_seasons), a cache miss: the RPC is
\* made once and what the function returns is cached, an empty frame included
FetchRawSpread ==
    /\ pc = "start" /\ ~raw_cached
    /\ \E outcome \in {"ok", "fail"}, table \in RpcTables :
          /\ outcome = "fail" => table = <<>>
          /\ LET got == get_raw_spread_data(outcome, table)
             IN /\ df_raw' = got.df
                /\ messages' = got.msg
    /\ raw_cached' = TRUE
    /\ pc' = "sidebar"
    /\ UNCHANGED <<error, spread_filter, bin_size, df_filtered, df_display>>
    /\ UNCHANGED <<herdvars, luckvars, mnfvars, fetchvars, rostervars, uservars, uploadvars, cachevars, poolvars, runvars>>

\* the same call on a later run: the cached frame comes back, no RPC
CachedRawSpread ==
    /\ pc = "start" /\ raw_cached
    /\ pc' = "sidebar"
    /\ UNCHANGED <<error, messages, df_raw, raw_cached, spread_filter, bin_size,
                   df_filtered, df_display>>
    /\ UNCHANGED <<herdvars, luckvars, mnfvars, fetchvars, rostervars, uservars, uploadvars, cachevars, poolvars, runvars>>

\* the Spread Range slider: its bounds come from the data, its value is the
\* user's; get_spread_range_from_data may raise
SpreadSlider ==
    /\ pc = "sidebar"
    /\ LET rng == IF IsEmpty(df_raw) THEN [err |-> "none", lo |-> -100, hi |-> 100]
                  ELSE get_spread_range_from_data(df_raw)
       IN IF rng.err # "none"
          THEN /\ error' = rng.err
               /\ pc' = "crashed"
               /\ UNCHANGED spread_filter
          ELSE /\ \E f \in SliderChoices(rng.lo, rng.hi) : spread_filter' = f
               /\ pc' = "tab1"
               /\ UNCHANGED error
    /\ UNCHANGED <<messages, df_raw, raw_cached, bin_size, df_filtered, df_display>>
    /\ UNCHANGED <<herdvars, luckvars, mnfvars, fetchvars, rostervars, uservars, uploadvars, cachevars, poolvars, runvars>>

\* Tab 1 with the Bin Size the user chose: filter, aggregate, rebin, melt
Tab1 ==
    /\ pc = "tab1"
    /\ \E w \in BinSizes :
          /\ bin_size' = w
          /\ IF IsEmpty(df_raw)
             THEN /\ messages' = messages \cup {"No data available for the selected seasons."}
                  /\ pc' = "done"
                  /\ UNCHANGED <<error, df_filtered, df_display>>
             ELSE LET res == rebin_data(FilterRows(df_raw, spread_filter), w)
                      e == melt_error(res.out)
                  IN /\ df_filtered' = res.arg
                     /\ df_display' = res.out
                     /\ error' = e
                     /\ pc' = IF e = "none" THEN "done" ELSE "crashed"
                     /\ UNCHANGED messages
    /\ UNCHANGED <<df_raw, raw_cached, spread_filter>>
    /\ UNCHANGED <<herdvars, luckvars, mnfvars, fetchvars, rostervars, uservars, uploadvars, cachevars, poolvars, runvars>>

\* the next interaction reruns the script; only the cache outlives the run
Rerun ==
    /\ pc \in {"done", "crashed"}
    /\ pc' = "start"
    /\ error' = "none"
    /\ messages' = {}
    /\ spread_filter' = <<-100, 100>>
    /\ bin_size' = 5
    /\ df_filtered' = EmptyFrame
    /\ df_display' = EmptyFrame
    /\ UNCHANGED <<df_raw, raw_cached>>
    /\ UNCHANGED <<herdvars, luckvars, mnfvars, fetchvars, rostervars, uservars, uploadvars, cachevars, poolvars, runvars>>

Next == FetchRawSpread \/ CachedRawSpread \/ SpreadSlider \/ Tab1 \/ Rerun

Spec == InitTab1 /\ [][Next]_vars

\* ------------------------------------------------------------ claims on the spread analysis
\* Tab 1 has run on a non-empty raw table, so rebin_data has been called
Tab1Ran == pc \in {"done", "crashed"} /\ ~IsEmpty(df_raw) /\ error # "ValueError"

\* the output rows whose bucket is the bin floor of an input row
BucketsOf(row) ==
    {k \in DOMAIN df_display.rows :
        Some(df_display.rows[k].bin_floor) = row.bin_floor}

\* C1: whatever the width and the rows handed to rebin_data, every input row
\* falls in exactly one output bucket and the total_games of the output rows
\* add up to the total_games of the input rows.
Thm_C1_RebinConserves ==
    (Tab1Ran /\ ~IsEmpty(df_filtered)) =>
        /\ \A i \in DOMAIN df_filtered.rows :
              Cardinality(BucketsOf(df_filtered.rows[i])) = 1
        /\ SumSeq(df_display.rows, "total_games")
             = SumSeq(df_filtered.rows, "total_games")

\* C1 witness: two input rows of different spreads were merged into one
\* bucket, whose total_games is the 2 games of the input.
Wit_C1_Merged ==
    /\ Tab1Ran
    /\ Len(df_filtered.rows) = 2
    /\ df_filtered.rows[1].home_spread # df_filtered.rows[2].home_spread
    /\ Len(df_display.rows) = 1
    /\ df_display.rows[1].total_games = 2

\* a percentage is a number in [0, 100]
InPctRange(q) == RatGE(q, 0) /\ RatLE(q, 100)

\* C2 as stated: for any non-negative counters of a bucket both percentages
\* are in [0, 100], and are 0 when the denominator counter is 0.
Orig_C2_PctAlwaysInRange ==
    Tab1Ran =>
        \A k \in DOMAIN df_display.rows :
            LET r == df_display.rows[k]
            IN /\ InPctRange(r.pct_picks_home)
               /\ InPctRange(r.pct_games_home_covered)
               /\ r.total_picks_made = 0 => RatIsZero(r.pct_picks_home)
               /\ r.total_games = 0 => RatIsZero(r.pct_games_home_covered)

\* C2 amended: both percentages are always numbers >= 0 (never NaN, never an
\* error); when the numerator counter does not exceed the denominator counter
\* the percentage is in [0, 100] and is 0 when the denominator counter is 0.
Thm_C2_PctInRangeWhenConsistent ==
    Tab1Ran =>
        \A k \in DOMAIN df_display.rows :
            LET r == df_display.rows[k]
            IN /\ RatGE(r.pct_picks_home, 0)
               /\ RatGE(r.pct_games_home_covered, 0)
               /\ r.total_home_picks <= r.total_picks_made =>
                     /\ InPctRange(r.pct_picks_home)
                     /\ r.total_picks_made = 0 => RatIsZero(r.pct_picks_home)
               /\ r.total_covers <= r.total_games =>
                     /\ InPctRange(r.pct_games_home_covered)
                     /\ r.total_games = 0 => RatIsZero(r.pct_games_home_covered)

\* C2 witness: a bucket with games but no pick made, and one with no game at all
Wit_C2_ZeroDenominator ==
    /\ Tab1Ran
    /\ \E k \in DOMAIN df_display.rows :
          /\ df_display.rows[k].total_picks_made = 0
          /\ df_display.rows[k].total_games > 0
          /\ RatIsZero(df_display.rows[k].pct_picks_home)
    /\ \E k \in DOMAIN df_display.rows :
          /\ df_display.rows[k].total_games = 0
          /\ RatIsZero(df_display.rows[k].pct_games_home_covered)

\* C8: when the spread filter removes every row of a non-empty raw table,
\* rebin_data returns an empty table and Tab 1 finishes without raising, and
\* without the "No data available" message of an empty raw result.
Claim_C8_EmptyFilterHandled ==
    (Tab1Ran /\ IsEmpty(df_filtered)) =>
        /\ IsEmpty(df_display)
        /\ error = "none"
        /\ "No data available for the selected seasons." \notin messages

\* ------------------------------------------------------------ Tab 2: herd classification
Herd == "Herd (Chalk)"
Contrarian == "Contrarian (Lone Wolf)"
Neutral == "Neutral"

\* p_home of get_herd_status in thousandths: home_pick_pct / 100 when the cell
\* is above 1, the cell itself (read as a fraction) otherwise
PHome(pct) == IF pct > 10 THEN pct ELSE pct * 100

\* a mutant of get_herd_status: the Herd thresholds are strict
get_herd_status_strict(pick_home, pct) ==
    IF IsNull(pct) THEN Neutral
    ELSE IF pick_home
         THEN (IF PHome(Val(pct)) > 600 THEN Herd
               ELSE IF PHome(Val(pct)) <= 400 THEN Contrarian ELSE Neutral)
         ELSE (IF PHome(Val(pct)) < 400 THEN Herd
               ELSE IF PHome(Val(pct)) >= 600 THEN Contrarian ELSE Neutral)

\* get_herd_status(row) for row.pick_home and row.home_pick_pct; with a NaN
\* cell every comparison is false and the row is Neutral
get_herd_status(pick_home, pct) ==
    IF IsNull(pct) THEN Neutral
    ELSE IF pick_home
         THEN (IF PHome(Val(pct)) >= 600 THEN Herd
               ELSE IF PHome(Val(pct)) <= 400 THEN Contrarian ELSE Neutral)
         ELSE (IF PHome(Val(pct)) <= 400 THEN Herd
               ELSE IF PHome(Val(pct)) >= 600 THEN Contrarian ELSE Neutral)

\* the pool baseline's category of a side whose share is p (tenths of a percent)
pool_herd_cat(p) ==
    IF p > 600 THEN Herd ELSE IF p < 400 THEN Contrarian ELSE Neutral

\* p_home of the baseline loop: the cell, or 50.0 when it is null
pool_p_home(pct) == IF IsNull(pct) THEN 500 ELSE Val(pct)

InitHerd ==
    /\ pc = "start"
    /\ error = "none"
    /\ messages = {}
    /\ Tab1Idle /\ HerdIdle /\ LuckIdle /\ MnfIdle /\ FetchIdle /\ RosterIdle
    /\ UserIdle /\ UploadIdle /\ CacheIdle /\ PoolIdle /\ RunIdle

\* the consensus merge gives the game a home_pick_pct between 0.0 and 100.0
GameConsensus ==
    /\ pc = "start"
    /\ \E k \in 0..1000 : home_pick_pct' = Some(1000 - k)
    /\ pc' = "row"
    /\ UNCHANGED <<error, messages, herd_status, cat_home, cat_away>>
    /\ UNCHANGED <<tab1vars, luckvars, mnfvars, fetchvars, rostervars, uservars, uploadvars, cachevars, poolvars, runvars>>

\* the left merge finds no consensus row for the game: the cell is NaN
GameWithoutConsensus ==
    /\ pc = "start"
    /\ home_pick_pct' = Null
    /\ pc' = "row"
    /\ UNCHANGED <<error, messages, herd_status, cat_home, cat_away>>
    /\ UNCHANGED <<tab1vars, luckvars, mnfvars, fetchvars, rostervars, uservars, uploadvars, cachevars, poolvars, runvars>>

\* df['herd_status'] = df.apply(get_herd_status, axis=1), for a participant
\* who picked home (TRUE) and for one who picked away (FALSE)
HerdStatus ==
    /\ pc = "row"
    /\ herd_status' = Some([ph \in BOOLEAN |-> get_herd_status(ph, home_pick_pct)])
    /\ pc' = "herd"
    /\ UNCHANGED <<error, messages, home_pick_pct, cat_home, cat_away>>
    /\ UNCHANGED <<tab1vars, luckvars, mnfvars, fetchvars, rostervars, uservars, uploadvars, cachevars, poolvars, runvars>>

\* one pass of the pool baseline loop over the same game
PoolHerdBaseline ==
    /\ pc = "herd"
    /\ cat_home' = Some(pool_herd_cat(pool_p_home(home_pick_pct)))
    /\ cat_away' = Some(pool_herd_cat(1000 - pool_p_home(home_pick_pct)))
    /\ pc' = "done"
    /\ UNCHANGED <<error, messages, home_pick_pct, herd_status>>
    /\ UNCHANGED <<tab1vars, luckvars, mnfvars, fetchvars, rostervars, uservars, uploadvars, cachevars, poolvars, runvars>>

NextHerd == GameConsensus \/ GameWithoutConsensus \/ HerdStatus \/ PoolHerdBaseline

SpecHerd == InitHerd /\ [][NextHerd]_vars

\* the category the specification gives a side whose share is p
SpecCategory(p) ==
    IF p >= 600 THEN Herd ELSE IF p <= 400 THEN Contrarian ELSE Neutral

\* the share of the side a participant picked
SideShare(pick_home) ==
    IF pick_home THEN Val(home_pick_pct) ELSE 1000 - Val(home_pick_pct)

Classified == pc \in {"herd", "done"} /\ ~IsNull(home_pick_pct)

\* C4: with p the share of the side the participant picked, get_herd_status is
\* Herd when p >= 60, Contrarian when p <= 40 and Neutral otherwise, for every
\* pick and every home_pick_pct in 0..100.
Claim_C4_HerdByPickedSideShare ==
    Classified =>
        \A ph \in BOOLEAN : Val(herd_status)[ph] = SpecCategory(SideShare(ph))

\* C5: the home picker and the away picker of one game are never both Herd,
\* and the thresholds are sharp: a side share of exactly 60 is Herd and a
\* side share of 59.9 is Neutral.
Thm_C5_HerdExclusiveAndSharp ==
    Classified =>
        /\ ~(Val(herd_status)[TRUE] = Herd /\ Val(herd_status)[FALSE] = Herd)
        /\ \A ph \in BOOLEAN :
              /\ SideShare(ph) = 600 => Val(herd_status)[ph] = Herd
              /\ SideShare(ph) = 599 => Val(herd_status)[ph] = Neutral

\* C5 witness: a game whose home share is exactly 60 has been classified, the
\* home picker Herd and the away picker Contrarian
Wit_C5_ShareSixty ==
    /\ Classified
    /\ home_pick_pct = Some(600)
    /\ Val(herd_status)[TRUE] = Herd
    /\ Val(herd_status)[FALSE] = Contrarian

\* C6: the pool baseline gives each side of a game the category that
\* get_herd_status gives a participant who picked that side at the same
\* share, at 60 and 40 included.
Claim_C6_BaselineSameThresholds ==
    (pc = "done" /\ ~IsNull(home_pick_pct)) =>
        /\ Val(cat_home) = Val(herd_status)[TRUE]
        /\ Val(cat_away) = Val(herd_status)[FALSE]

\* ------------------------------------------------------------ Tab 2: the luck spectrum
\* the positions of the Close Call Threshold slider: 0.5 to 10.0 by 0.5
LuckThresholds == {5 * k : k \in 1..20}

\* the margins the model classifies; NaN is one of them
Margins == {Some(m) : m \in (0 - MaxMargin)..MaxMargin} \cup {Null}

\* a bucket label carries the threshold it was formatted with
Bucket(name, t) == [name |-> name, t |-> t]

\* a mutant of classify_luck: a margin of 0 counts as a win
classify_luck_zero_wins(margin, t) ==
    IF IsNull(margin) THEN Bucket("Blowout Loss", t)
    ELSE IF Val(margin) > t THEN Bucket("Convincing Win", t)
    ELSE IF Val(margin) >= 0 THEN Bucket("Lucky Win", t)
    ELSE IF Val(margin) >= 0 - t THEN Bucket("Bad Beat", t)
    ELSE Bucket("Blowout Loss", t)

\* classify_luck(margin) under luck_threshold t; every comparison with a NaN
\* margin is false, which leaves the last return
classify_luck(margin, t) ==
    IF IsNull(margin) THEN Bucket("Blowout Loss", t)
    ELSE IF Val(margin) > t THEN Bucket("Convincing Win", t)
    ELSE IF Val(margin) > 0 THEN Bucket("Lucky Win", t)
    ELSE IF Val(margin) >= 0 - t THEN Bucket("Bad Beat", t)
    ELSE Bucket("Blowout Loss", t)

InitLuck ==
    /\ pc = "start"
    /\ error = "none"
    /\ messages = {}
    /\ Tab1Idle /\ HerdIdle /\ LuckIdle /\ MnfIdle /\ FetchIdle /\ RosterIdle
    /\ UserIdle /\ UploadIdle /\ CacheIdle /\ PoolIdle /\ RunIdle

\* luck_threshold = st.slider("Close Call Threshold (Points)", 0.5, 10.0, 2.5, 0.5)
LuckSlider ==
    /\ pc = "start"
    /\ \E t \in LuckThresholds : luck_threshold' = t
    /\ pc' = "slider"
    /\ UNCHANGED <<error, messages, user_margin, luck_bucket, user_margins,
                   luck_buckets, luck_counts>>
    /\ UNCHANGED <<tab1vars, herdvars, mnfvars, fetchvars, rostervars, uservars, uploadvars, cachevars, poolvars, runvars>>

\* classify_luck applied to one margin: a row's user_margin, or a game's
\* home_margin and its negation in the pool baseline
ClassifyLuck ==
    /\ pc = "slider"
    /\ \E m \in Margins :
          /\ user_margin' = m
          /\ luck_bucket' = Some(classify_luck(m, luck_threshold))
    /\ pc' = "done"
    /\ UNCHANGED <<error, messages, luck_threshold, user_margins, luck_buckets,
                   luck_counts>>
    /\ UNCHANGED <<tab1vars, herdvars, mnfvars, fetchvars, rostervars, uservars, uploadvars, cachevars, poolvars, runvars>>

\* the user_margin columns of the model: margins 0, 3.0, -1.0, -3.0 and NaN
MarginColumns ==
    UNION {[1..n -> {Some(0), Some(30), Some(-10), Some(-30), Null}] : n \in 1..MaxPicks}

\* a mutant of luck_counts_of: the share is taken of the number of buckets
luck_counts_per_bucket(col, t) ==
    LET buckets == [i \in DOMAIN col |-> classify_luck(col[i], t)]
        occurring == {buckets[i] : i \in DOMAIN col}
        Count(b) == Cardinality({i \in DOMAIN col : buckets[i] = b})
    IN [b \in occurring |->
           [Count |-> Count(b),
            Percent |-> FloatDiv(Count(b) * 100, Cardinality(occurring))]]

\* luck_counts: value_counts of the luck_bucket column, and
\* Percent = (Count / len(df)) * 100
luck_counts_of(col, t) ==
    LET buckets == [i \in DOMAIN col |-> classify_luck(col[i], t)]
        occurring == {buckets[i] : i \in DOMAIN col}
        Count(b) == Cardinality({i \in DOMAIN col : buckets[i] = b})
    IN [b \in occurring |->
           [Count |-> Count(b),
            Percent |-> FloatDiv(Count(b) * 100, Len(col))]]

\* df['luck_bucket'] and luck_counts over the participant's table
LuckCounts ==
    /\ pc = "slider"
    /\ \E col \in MarginColumns :
          /\ user_margins' = col
          /\ luck_buckets' = [i \in DOMAIN col |-> classify_luck(col[i], luck_threshold)]
          /\ luck_counts' = Some(luck_counts_of(col, luck_threshold))
    /\ pc' = "done"
    /\ UNCHANGED <<error, messages, luck_threshold, user_margin, luck_bucket>>
    /\ UNCHANGED <<tab1vars, herdvars, mnfvars, fetchvars, rostervars, uservars, uploadvars, cachevars, poolvars, runvars>>

NextLuck == LuckSlider \/ ClassifyLuck \/ LuckCounts

SpecLuck == InitLuck /\ [][NextLuck]_vars

\* the bucket the specification gives margin m under threshold t
SpecBucket(m, t) ==
    IF m < 0 - t THEN "Blowout Loss"
    ELSE IF m <= 0 THEN "Bad Beat"
    ELSE IF m <= t THEN "Lucky Win"
    ELSE "Convincing Win"

\* C3: for every threshold t > 0 and margin m, classify_luck returns Blowout
\* Loss when m < -t, Bad Beat when -t <= m <= 0, Lucky Win when 0 < m <= t and
\* Convincing Win when m > t; a margin of exactly 0 is Bad Beat.
Thm_C3_LuckBuckets ==
    (pc = "done" /\ ~IsNull(user_margin)) =>
        /\ luck_threshold > 0
        /\ Val(luck_bucket) = Bucket(SpecBucket(Val(user_margin), luck_threshold),
                                     luck_threshold)
        /\ user_margin = Some(0) => Val(luck_bucket).name = "Bad Beat"

\* C3 witness: a margin of exactly 0 has been classified, as Bad Beat, under
\* a threshold other than the default
Wit_C3_ZeroMargin ==
    /\ pc = "done"
    /\ user_margin = Some(0)
    /\ luck_threshold = 100
    /\ Val(luck_bucket).name = "Bad Beat"

\* ------------------------------------------------------------ uploader: game records
\* what a workbook cell can hold: nothing, a number, a numeric string, the
\* string "nan", or something float() rejects (v in tenths)
ScoreCells == {[t |-> "none", v |-> 0], [t |-> "num", v |-> 200],
               [t |-> "num", v |-> 230], [t |-> "str", v |-> 240],
               [t |-> "num", v |-> 237], [t |-> "bad", v |-> 0]}
SpreadCells == {[t |-> "none", v |-> 0], [t |-> "num", v |-> -30],
                [t |-> "num", v |-> 35], [t |-> "str", v |-> 30],
                [t |-> "num", v |-> 7], [t |-> "nan", v |-> 0],
                [t |-> "bad", v |-> 0]}

\* int() of a float given in tenths: truncation toward zero
IntOfTenths(v) == IF v >= 0 THEN v \div 10 ELSE 0 - ((0 - v) \div 10)

\* int(float(cell)) if cell is not None else 0; "ValueError" when float() or
\* int() rejects the cell (int(float("nan")) does)
score_of(cell) ==
    IF cell.t = "none" THEN Some(0)
    ELSE IF cell.t \in {"num", "str"} THEN Some(IntOfTenths(cell.v))
    ELSE Null

\* float(cell) if cell is not None else 0.0, in tenths: [nan, v]; Null when
\* float() rejects the cell
spread_of(cell) ==
    IF cell.t = "none" THEN Some([nan |-> FALSE, v |-> 0])
    ELSE IF cell.t \in {"num", "str"} THEN Some([nan |-> FALSE, v |-> cell.v])
    ELSE IF cell.t = "nan" THEN Some([nan |-> TRUE, v |-> 0])
    ELSE Null

\* adjusted_home == a_score, a comparison with nan being false
tie_spread_of(h_score, spread, a_score) ==
    ~spread.nan /\ h_score * 10 + spread.v = a_score * 10

\* a mutant of home_cover_of: a push counts as a cover
home_cover_or_push(h_score, spread, a_score) ==
    ~spread.nan /\ h_score * 10 + spread.v >= a_score * 10

\* adjusted_home > a_score
home_cover_of(h_score, spread, a_score) ==
    ~spread.nan /\ h_score * 10 + spread.v > a_score * 10

\* the game_payload of one game column, Null when the column is skipped
game_payload_of(col) ==
    LET h == score_of(col.home_score)
        a == score_of(col.away_score)
        s == spread_of(col.home_spread)
    IN IF IsNull(h) \/ IsNull(a) \/ IsNull(s) THEN Null
       ELSE Some([home_score |-> Val(h), away_score |-> Val(a),
                  home_spread |-> Val(s),
                  home_cover |-> home_cover_of(Val(h), Val(s), Val(a)),
                  tie_spread |-> tie_spread_of(Val(h), Val(s), Val(a))])

InitUpload ==
    /\ pc = "start"
    /\ error = "none"
    /\ messages = {}
    /\ Tab1Idle /\ HerdIdle /\ LuckIdle /\ MnfIdle /\ FetchIdle /\ RosterIdle
    /\ UserIdle /\ UploadIdle /\ CacheIdle /\ PoolIdle /\ RunIdle

\* the cells of rows 1, 3 and 5 of a valid game column
ReadGameColumn ==
    /\ pc = "start"
    /\ \E h \in ScoreCells, s \in SpreadCells, a \in ScoreCells :
          sheet_col' = Some([home_score |-> h, home_spread |-> s, away_score |-> a])
    /\ pc' = "column"
    /\ UNCHANGED <<error, messages, game_payload>>
    /\ UNCHANGED <<tab1vars, herdvars, luckvars, mnfvars, fetchvars, rostervars,
                   uservars, cachevars, poolvars, runvars>>

\* the record built for the column, or the column skipped on a data error
BuildGamePayload ==
    /\ pc = "column"
    /\ game_payload' = game_payload_of(Val(sheet_col))
    /\ messages' = IF IsNull(game_payload_of(Val(sheet_col)))
                   THEN messages \cup {"Data error, skipping."} ELSE messages
    /\ pc' = "done"
    /\ UNCHANGED <<error, sheet_col>>
    /\ UNCHANGED <<tab1vars, herdvars, luckvars, mnfvars, fetchvars, rostervars,
                   uservars, cachevars, poolvars, runvars>>

NextUpload == ReadGameColumn \/ BuildGamePayload

SpecUpload == InitUpload /\ [][NextUpload]_vars

\* C14: every game record the uploader builds has tie_spread true exactly when
\* home_score + home_spread equals away_score, home_cover true exactly when
\* home_score + home_spread exceeds away_score, and never both true, missing
\* cells being 0.
Thm_C14_TieCoverExclusive ==
    ~IsNull(game_payload) =>
        LET g == Val(game_payload)
            adj == g.home_score * 10 + g.home_spread.v
        IN /\ ~(g.tie_spread /\ g.home_cover)
           /\ g.tie_spread <=> (~g.home_spread.nan /\ adj = g.away_score * 10)
           /\ g.home_cover <=> (~g.home_spread.nan /\ adj > g.away_score * 10)
           /\ Val(sheet_col).home_score.t = "none" => g.home_score = 0
           /\ Val(sheet_col).away_score.t = "none" => g.away_score = 0
           /\ Val(sheet_col).home_spread.t = "none" => g.home_spread.v = 0

\* C14 witness: a push has been written, home 20 (+3.0) against away 23.7
\* truncated to 23, flagged as a tie and not as a cover
Wit_C14_Push ==
    /\ ~IsNull(game_payload)
    /\ Val(game_payload).tie_spread
    /\ ~Val(game_payload).home_cover
    /\ Val(game_payload).home_score = 20
    /\ Val(game_payload).away_score = 23
    /\ Val(sheet_col).away_score.v = 237

\* ------------------------------------------------------------ Tab 2: point totals
\* exact arithmetic on quotients
RatSub(a, b) == Rat(a.num * b.den - b.num * a.den, a.den * b.den)
RatQuot(a, b) ==
    IF b.num = 0 THEN (IF a.num = 0 THEN NaN ELSE Inf)
    ELSE FloatDiv(a.num * b.den, a.den * b.num)
RatTimes(a, k) == IF IsNum(a) THEN Rat(a.num * k, a.den) ELSE a
RatGT(a, k) == IsNum(a) /\ a.num > k * a.den

\* the totals of the model, in points: actual_total (0 for a game not played),
\* the participant's forecast and the pool median (either may be missing)
ActualTotals == {0, 41, 44}
Forecasts == {Null, Some(41), Some(44), Some(47)}
Medians == {Null, Some(41), Some(44)}

MnfRows == [actual_total : ActualTotals, tot_if_picked : Forecasts,
            pool_median_total : Medians]
\* a participant whose forecasts miss the actual total by 2, 4 and 6 while the
\* pool median misses it by 3 each time
ScenarioTotals ==
    <<[actual_total |-> 44, tot_if_picked |-> Some(42), pool_median_total |-> Some(41)],
      [actual_total |-> 44, tot_if_picked |-> Some(48), pool_median_total |-> Some(47)],
      [actual_total |-> 44, tot_if_picked |-> Some(50), pool_median_total |-> Some(41)]>>

MnfTables == UNION {[1..n -> MnfRows] : n \in 0..MaxMnf} \cup {ScenarioTotals}

\* the rows the summary is computed over
Qualifies(r) ==
    /\ r.actual_total > 0
    /\ ~IsNull(r.tot_if_picked)
    /\ ~IsNull(r.pool_median_total)

RECURSIVE SumAbsErr(_, _)
SumAbsErr(rows, field) ==
    IF rows = <<>> THEN 0
    ELSE Abs(Val(rows[1][field]) - rows[1].actual_total) + SumAbsErr(Tail(rows), field)

\* Series.mean() of the absolute errors of a column
MeanAbsErr(rows, field) == FloatDiv(SumAbsErr(rows, field), Len(rows))

\* a mutant of edge_pct: the quotient is taken whatever mae_median is
edge_pct_unguarded(mae_user, mae_median) ==
    RatTimes(RatQuot(RatSub(mae_median, mae_user), mae_median), 100)

\* ((mae_median - mae_user) / mae_median) * 100 if mae_median > 0 else 0.0
edge_pct(mae_user, mae_median) ==
    IF RatGT(mae_median, 0)
    THEN RatTimes(RatQuot(RatSub(mae_median, mae_user), mae_median), 100)
    ELSE Rat(0, 1)

AbsErrUser(r) == Abs(Val(r.tot_if_picked) - r.actual_total)
AbsErrMedian(r) == Abs(Val(r.pool_median_total) - r.actual_total)

\* f"{x:.1f}" of a quotient with a positive denominator: the nearest tenth,
\* as a number of tenths
Fmt1(q) ==
    LET n == q.num * 10
        f == n \div q.den
        r == n % q.den
    IN IF 2 * r < q.den THEN f
       ELSE IF 2 * r > q.den THEN f + 1
       ELSE IF f % 2 = 0 THEN f ELSE f + 1

\* a mutant of mnf_summary: an equal error counts as a win too
mnf_summary_ties_win(stats) ==
    LET mu == MeanAbsErr(stats, "tot_if_picked")
        mm == MeanAbsErr(stats, "pool_median_total")
        I == DOMAIN stats
    IN [n |-> Len(stats), mae_user |-> mu, mae_median |-> mm,
        edge_pct |-> edge_pct(mu, mm),
        wins |-> Cardinality({i \in I : AbsErrUser(stats[i]) <= AbsErrMedian(stats[i])}),
        losses |-> Cardinality({i \in I : AbsErrUser(stats[i]) > AbsErrMedian(stats[i])}),
        ties |-> Cardinality({i \in I : AbsErrUser(stats[i]) = AbsErrMedian(stats[i])})]

\* the summary over stats_df
mnf_summary(stats) ==
    LET mu == MeanAbsErr(stats, "tot_if_picked")
        mm == MeanAbsErr(stats, "pool_median_total")
        I == DOMAIN stats
    IN [n |-> Len(stats), mae_user |-> mu, mae_median |-> mm,
        edge_pct |-> edge_pct(mu, mm),
        wins |-> Cardinality({i \in I : AbsErrUser(stats[i]) < AbsErrMedian(stats[i])}),
        losses |-> Cardinality({i \in I : AbsErrUser(stats[i]) > AbsErrMedian(stats[i])}),
        ties |-> Cardinality({i \in I : AbsErrUser(stats[i]) = AbsErrMedian(stats[i])})]

\* ------------------------------------------------------------ Tab 2: the per-user table
\* scores and spread of a game row of the backend (spread cell in tenths): the
\* home side covers, a push, the away side covers, a row whose spread is null,
\* the home side covers by 7.0
GameResults ==
    {[home_score |-> 24, away_score |-> 20, home_spread |-> [t |-> "num", v |-> -30]],
     [home_score |-> 30, away_score |-> 20, home_spread |-> [t |-> "num", v |-> -30]],
     [home_score |-> 23, away_score |-> 20, home_spread |-> [t |-> "num", v |-> -30]],
     [home_score |-> 20, away_score |-> 24, home_spread |-> [t |-> "num", v |-> 35]],
     [home_score |-> 24, away_score |-> 20, home_spread |-> [t |-> "null", v |-> 0]]}

\* the teams of the schedule: game 1 is KC at home to BUF, game 2 BUF at home
\* to PHI, game 3 PHI at home to KC
TeamIds == <<"KC", "BUF", "PHI">>

\* a row of the game table with the flags the uploader stored for it
GameRow(id, res, mnf) ==
    LET s == [nan |-> res.home_spread.t = "null", v |-> res.home_spread.v]
    IN [game_id |-> id, home_team_id |-> TeamIds[((id - 1) % Len(TeamIds)) + 1],
        away_team_id |-> TeamIds[(id % Len(TeamIds)) + 1],
        home_score |-> res.home_score, away_score |-> res.away_score,
        home_spread |-> res.home_spread, mnf |-> mnf,
        home_cover |-> home_cover_of(res.home_score, s, res.away_score),
        tie_spread |-> tie_spread_of(res.home_score, s, res.away_score)]

GameTables ==
    UNION {{[i \in 1..n |-> GameRow(i, f[i], FALSE)] : f \in [1..n -> GameResults]} :
           n \in 0..MaxGames}

\* what the pick query returns for a game: no row, or the participant's valid pick
PickRows == {Null} \cup {Some([pick_home |-> h, tot_if_picked |-> Null]) : h \in BOOLEAN}

\* what get_game_consensus returns for a game: no row, or a row with its
\* home_pick_pct cell, tenths of a percent
ConsensusRows == {Null, Some(Some(10)), Some(Some(300)), Some(Some(500)), Some(Some(700))}

\* a mutant of game_query: the tie_spread filter is not sent
game_query_unfiltered(table) == table

\* .in_('season', selected_seasons).eq('tie_spread', False)
game_query(table) ==
    LET NotTie(g) == ~g.tie_spread IN SelectSeq(table, NotTie)

\* df_games: home_spread made numeric, actual_total added
df_games_of(games) ==
    [i \in DOMAIN games |->
        [game_id |-> games[i].game_id, home_team_id |-> games[i].home_team_id,
         away_team_id |-> games[i].away_team_id, home_score |-> games[i].home_score,
         away_score |-> games[i].away_score, mnf |-> games[i].mnf,
         home_cover |-> games[i].home_cover, tie_spread |-> games[i].tie_spread,
         home_spread |-> to_numeric(games[i].home_spread),
         actual_total |-> games[i].home_score + games[i].away_score]]

\* a mutant of median_pick_home: an even split counts as a home majority
median_pick_home_or_even(cell) ==
    (IF IsNull(cell) THEN 500 ELSE Val(cell)) >= 500

\* the Median Picker's pick_home: home_pick_pct.fillna(50.0) > 50.0
median_pick_home(cell) ==
    (IF IsNull(cell) THEN 500 ELSE Val(cell)) > 500

\* the cell a left merge on game_id gives: the frame's cell, NaN without a row
left_merge(frame, id) == IF IsNull(frame[id]) THEN Null ELSE Val(frame[id])

\* a frame indexed by game_id has no row among ids
NoRows(frame, ids) == \A id \in ids : IsNull(frame[id])

\* a mutant of median_totals: the baseline column is never filled from the forecast
median_totals_unfilled(medians, id) ==
    [tot_if_picked |-> IF NoRows(medians, DOMAIN medians) THEN Null
                       ELSE left_merge(medians, id),
     pool_median_total |-> Null]

\* the Median Picker's tot_if_picked, the pool median merged on game_id (None
\* when there are no medians), and the pool_median_total copied from it
median_totals(medians, id) ==
    LET tot == IF NoRows(medians, DOMAIN medians) THEN Null
               ELSE left_merge(medians, id)
    IN [tot_if_picked |-> tot, pool_median_total |-> tot]

\* the table get_user_performance_data returns when no request raises; picks,
\* consensus and medians are indexed by game_id, Null where the response has
\* no row for the game.  A get_game_consensus that raised is an empty consensus.
user_table(user, table, picks, consensus, medians) ==
    LET df_games == df_games_of(game_query(table))
        ids == {df_games[i].game_id : i \in DOMAIN df_games}
        no_consensus == NoRows(consensus, ids)
        no_medians == NoRows(medians, DOMAIN medians)
        Picked(g) == ~IsNull(picks[g.game_id])
        MedianRow(g) ==
            LET tot == median_totals(medians, g.game_id)
            IN [game_id |-> g.game_id, home_team_id |-> g.home_team_id,
                away_team_id |-> g.away_team_id, home_score |-> g.home_score,
                away_score |-> g.away_score, mnf |-> g.mnf,
                home_cover |-> g.home_cover, tie_spread |-> g.tie_spread,
                home_spread |-> g.home_spread, actual_total |-> g.actual_total,
                pick_home |-> median_pick_home(left_merge(consensus, g.game_id)),
                pick_made |-> TRUE, username |-> "median",
                tot_if_picked |-> tot.tot_if_picked,
                pool_median_total |-> tot.pool_median_total,
                home_pick_pct |-> left_merge(consensus, g.game_id)]
        NamedRow(g) ==
            LET p == Val(picks[g.game_id])
            IN [game_id |-> g.game_id, home_team_id |-> g.home_team_id,
                away_team_id |-> g.away_team_id, home_score |-> g.home_score,
                away_score |-> g.away_score, mnf |-> g.mnf,
                home_cover |-> g.home_cover, tie_spread |-> g.tie_spread,
                home_spread |-> g.home_spread, actual_total |-> g.actual_total,
                pick_home |-> p.pick_home, pick_made |-> TRUE,
                tot_if_picked |-> p.tot_if_picked,
                pool_median_total |-> IF no_medians THEN p.tot_if_picked
                                      ELSE left_merge(medians, g.game_id),
                home_pick_pct |-> IF no_consensus THEN Some(500)
                                  ELSE left_merge(consensus, g.game_id)]
    IN IF df_games = <<>> THEN <<>>
       ELSE IF user = "median"
       THEN (IF no_consensus THEN <<>>
             ELSE [i \in DOMAIN df_games |-> MedianRow(df_games[i])])
       ELSE LET mine == SelectSeq(df_games, Picked)
            IN [i \in DOMAIN mine |-> NamedRow(mine[i])]

\* raw_margin = (home_score + home_spread) - away_score, tenths; NaN with a
\* NaN spread
raw_margin(r) ==
    IF IsNull(r.home_spread) THEN Null
    ELSE Some(r.home_score * 10 + Val(r.home_spread) - r.away_score * 10)

\* a mutant of user_margin_of: the margin keeps the home side's sign
user_margin_unsigned(r) == raw_margin(r)

\* user_margin = raw_margin if pick_home else -raw_margin
user_margin_of(r) ==
    IF IsNull(raw_margin(r)) THEN Null
    ELSE IF r.pick_home THEN raw_margin(r) ELSE Some(0 - Val(raw_margin(r)))

\* the columns Tab 2 adds to df: user_won, user_margin, herd_status, luck_bucket
tab2_columns(rows, t) ==
    [i \in DOMAIN rows |->
        rows[i] @@
        [user_won |-> (rows[i].pick_home = rows[i].home_cover),
         user_margin |-> user_margin_of(rows[i]),
         herd_status |-> get_herd_status(rows[i].pick_home, rows[i].home_pick_pct),
         luck_bucket |-> classify_luck(user_margin_of(rows[i]), t)]]

\* team_stats[team][field] += 1
Bump(stats, team, field) == [stats EXCEPT ![team][field] = @ + 1]

\* one pass of the loop over df.iterrows()
team_row(stats, row) ==
    LET picked == IF row.pick_home THEN row.home_team_id ELSE row.away_team_id
        other == IF row.pick_home THEN row.away_team_id ELSE row.home_team_id
    IN Bump(Bump(stats, picked, IF row.user_won THEN "for_win" ELSE "for_loss"),
            other, IF row.user_won THEN "against_win" ELSE "against_loss")

\* team_stats after the loop has passed rows i..Len(rows)
RECURSIVE team_stats(_, _, _)
team_stats(rows, i, stats) ==
    IF i > Len(rows) THEN stats
    ELSE team_stats(rows, i + 1, team_row(stats, rows[i]))

\* a mutant of team_covers_of: the participant's wins with and against the team
team_covers_as_user_wins(s) == s.for_win + s.against_win

\* team_covers = for_win + against_loss
team_covers_of(s) == s.for_win + s.against_loss

\* df_user_stats: the teams with total_games > 0 and their derived columns
df_user_stats_of(rows) ==
    LET all_teams == {rows[i].home_team_id : i \in DOMAIN rows}
                     \cup {rows[i].away_team_id : i \in DOMAIN rows}
        zero == [for_win |-> 0, for_loss |-> 0, against_win |-> 0, against_loss |-> 0]
        done == team_stats(rows, 1, [t \in all_teams |-> zero])
        Total(s) == s.for_win + s.for_loss + s.against_win + s.against_loss
    IN [t \in {u \in all_teams : Total(done[u]) > 0} |->
          done[t] @@ [total_games |-> Total(done[t]),
                      user_wins |-> done[t].for_win + done[t].against_win,
                      team_covers |-> team_covers_of(done[t]),
                      times_picked_for |-> done[t].for_win + done[t].for_loss]]

InitMnf ==
    /\ pc = "start"
    /\ error = "none"
    /\ messages = {}
    /\ Tab1Idle /\ HerdIdle /\ LuckIdle /\ MnfIdle /\ FetchIdle /\ RosterIdle
    /\ UserIdle /\ UploadIdle /\ CacheIdle /\ PoolIdle /\ RunIdle

\* df_mnf = df[df['mnf'] == True].copy()
MnfGames ==
    /\ pc = "start"
    /\ \E t \in MnfTables : df_mnf' = t
    /\ pc' = "mnf"
    /\ UNCHANGED <<error, messages, mnf_stats>>
    /\ UNCHANGED <<tab1vars, herdvars, luckvars, fetchvars, rostervars, uservars, uploadvars, cachevars, poolvars, runvars>>

\* what get_mnf_medians returns for a game: no row, a null median, a median
MedianRows == {Null, Some(Null), Some(Some(41)), Some(Some(44))}

\* scores of a designated game: played (44 points), not played yet, played (41)
MnfResults ==
    {[home_score |-> 24, away_score |-> 20, home_spread |-> [t |-> "num", v |-> -30]],
     [home_score |-> 0, away_score |-> 0, home_spread |-> [t |-> "num", v |-> -30]],
     [home_score |-> 21, away_score |-> 20, home_spread |-> [t |-> "num", v |-> -30]]}

\* df_mnf of the Median Picker: the table get_user_performance_data builds
\* for it from the games, the consensus and the pool medians, with the columns
\* of Tab 2, cut to the designated games
MedianPickerGames ==
    /\ pc = "start"
    /\ \E n \in 1..MaxMnf :
          \E res \in [1..n -> MnfResults], mnf \in [1..n -> BOOLEAN],
             medians \in [1..n -> MedianRows] :
             LET table == [i \in 1..n |-> GameRow(i, res[i], mnf[i])]
                 rows == user_table("median", table, [i \in 1..n |-> Null],
                                    [i \in 1..n |-> Some(Some(700))], medians)
                 IsMnf(r) == r.mnf
             IN df_mnf' = SelectSeq(tab2_columns(rows, luck_threshold), IsMnf)
    /\ pc' = "mnf"
    /\ UNCHANGED <<error, messages, mnf_stats>>
    /\ UNCHANGED <<tab1vars, herdvars, luckvars, fetchvars, rostervars, uservars, uploadvars, cachevars, poolvars, runvars>>

\* section 5: the summary over the qualifying rows, or a message
MnfSummary ==
    /\ pc = "mnf"
    /\ LET stats == SelectSeq(df_mnf, Qualifies)
       IN IF df_mnf = <<>>
          THEN /\ messages' = messages \cup {"No MNF data found for this selection."}
               /\ UNCHANGED mnf_stats
          ELSE IF stats = <<>>
          THEN /\ messages' = messages \cup
                      {"Not enough completed games for summary statistics."}
               /\ UNCHANGED mnf_stats
          ELSE /\ mnf_stats' = Some(mnf_summary(stats))
               /\ UNCHANGED messages
    /\ pc' = "done"
    /\ UNCHANGED <<error, df_mnf>>
    /\ UNCHANGED <<tab1vars, herdvars, luckvars, fetchvars, rostervars, uservars, uploadvars, cachevars, poolvars, runvars>>

NextMnf == MnfGames \/ MedianPickerGames \/ MnfSummary

SpecMnf == InitMnf /\ [][NextMnf]_vars

\* C9: when the pool median's mean absolute error over the qualifying games
\* is 0, edge_pct is 0 and nothing is raised; otherwise edge_pct is
\* (mae_median - mae_user) / mae_median * 100.
Thm_C9_EdgePct ==
    (pc = "done" /\ ~IsNull(mnf_stats)) =>
        LET st == Val(mnf_stats)
        IN /\ error = "none"
           /\ IsNum(st.mae_median) /\ IsNum(st.mae_user)
           /\ RatIsZero(st.mae_median) => RatIsZero(st.edge_pct)
           /\ ~RatIsZero(st.mae_median) =>
                 /\ IsNum(st.edge_pct)
                 /\ st.edge_pct.num * st.mae_median.num * st.mae_user.den
                      = 100 * st.edge_pct.den
                        * (st.mae_median.num * st.mae_user.den
                           - st.mae_user.num * st.mae_median.den)

\* C9 witness: a summary whose mae_median is 0 while the participant's is not
Wit_C9_ZeroMedianError ==
    /\ pc = "done"
    /\ ~IsNull(mnf_stats)
    /\ RatIsZero(Val(mnf_stats).mae_median)
    /\ ~RatIsZero(Val(mnf_stats).mae_user)
    /\ RatIsZero(Val(mnf_stats).edge_pct)

\* df_mnf is the Median Picker's
MedianPickerTotals ==
    /\ df_mnf # <<>>
    /\ \A i \in DOMAIN df_mnf : "username" \in DOMAIN df_mnf[i]

\* C12: for the Median Picker the forecast of every designated game equals the
\* pool median used as baseline, so in the summary mae_user = mae_median,
\* edge_pct = 0 and the record is 0 wins, 0 losses, every qualifying game a tie.
Thm_C12_MedianPickerTiesItself ==
    MedianPickerTotals =>
        /\ \A i \in DOMAIN df_mnf :
              df_mnf[i].tot_if_picked = df_mnf[i].pool_median_total
        /\ (pc = "done" /\ ~IsNull(mnf_stats)) =>
              LET st == Val(mnf_stats)
              IN /\ st.mae_user = st.mae_median
                 /\ RatIsZero(st.edge_pct)
                 /\ st.wins = 0 /\ st.losses = 0
                 /\ st.ties = Len(SelectSeq(df_mnf, Qualifies))
                 /\ st.ties = st.n

\* C12 witness: the Median Picker's summary over two played designated games
\* with medians 41 and 44, the second one exact
Wit_C12_TwoTies ==
    /\ MedianPickerTotals
    /\ pc = "done" /\ ~IsNull(mnf_stats)
    /\ Len(df_mnf) = 2
    /\ df_mnf[1].tot_if_picked = Some(41) /\ df_mnf[1].actual_total = 44
    /\ df_mnf[2].tot_if_picked = Some(44) /\ df_mnf[2].actual_total = 44
    /\ Val(mnf_stats).ties = 2

\* C20: over the qualifying games a win is a strictly smaller absolute error
\* than the median's, a loss a strictly larger one, a tie an equal one, so wins
\* + losses + ties is the number of qualifying games; errors [2, 4, 6] against
\* [3, 3, 3] give mae_user 4.0, mae_median 3.0, edge_pct -33.3, record 1-2-0.
Thm_C20_RecordVsMedian ==
    (pc = "done" /\ ~IsNull(mnf_stats)) =>
        LET st == Val(mnf_stats)
            q == SelectSeq(df_mnf, Qualifies)
            Fewer(i) == AbsErrUser(q[i]) < AbsErrMedian(q[i])
            More(i) == AbsErrUser(q[i]) > AbsErrMedian(q[i])
        IN /\ st.wins = Cardinality({i \in DOMAIN q : Fewer(i)})
           /\ st.losses = Cardinality({i \in DOMAIN q : More(i)})
           /\ st.ties = Cardinality({i \in DOMAIN q : ~Fewer(i) /\ ~More(i)})
           /\ st.wins + st.losses + st.ties = Len(q)
           /\ df_mnf = ScenarioTotals =>
                 /\ Fmt1(st.mae_user) = 40 /\ st.mae_user.num = 4 * st.mae_user.den
                 /\ Fmt1(st.mae_median) = 30 /\ st.mae_median.num = 3 * st.mae_median.den
                 /\ Fmt1(st.edge_pct) = -333
                 /\ <<st.wins, st.losses, st.ties>> = <<1, 2, 0>>

\* C20 witness: the summary of the scenario has been computed
Wit_C20_Scenario ==
    /\ pc = "done"
    /\ df_mnf = ScenarioTotals
    /\ ~IsNull(mnf_stats)
    /\ Val(mnf_stats).n = 3
    /\ Val(mnf_stats).wins = 1

\* ------------------------------------------------------------ the remote fetches of a run
\* what the backend does with one request: rows, no rows, or an exception
Outcomes == {"data", "empty", "fail"}

\* the record of one request (batch numbers the requests of a loop): shown is
\* the message of the handler that caught its failure, "none" when nothing
\* was shown for it
BatchCall(q, batch, outcome, shown) ==
    [q |-> q, batch |-> batch, attempts |-> 1, failed |-> outcome = "fail",
     msg |-> IF outcome = "fail" THEN shown ELSE "none",
     empty |-> outcome # "data"]

Call(q, outcome, shown) == BatchCall(q, 0, outcome, shown)

Shown(cs) == {c.msg : c \in {d \in cs : d.msg # "none"}}

\* a fetch function of one request in a try whose except calls st.error(text)
\* and returns the empty value
fetch_or_report(q, outcome, text) ==
    [calls |-> {Call(q, outcome, text)},
     msgs |-> Shown({Call(q, outcome, text)}),
     ret |-> IF outcome = "data" THEN "data" ELSE "empty"]

\* get_available_seasons: no row gives [2024], a failure gives []
get_available_seasons(outcome) ==
    [fetch_or_report("seasons", outcome, "Error fetching seasons")
        EXCEPT !.ret = IF outcome = "fail" THEN "empty" ELSE "data"]

get_mnf_pool_data(outcome) ==
    fetch_or_report("get_mnf_medians", outcome, "Error calculating MNF medians")

get_global_game_stats(outcome) ==
    fetch_or_report("get_global_game_stats", outcome, "Error fetching global game stats")

\* get_global_herd_distribution: the game ids, then get_game_consensus batch by
\* batch, a failed batch being passed over
get_global_herd_distribution(games, batches) ==
    LET g == Call("herd_game_ids", games, "Error calculating global herd stats")
        bs == {BatchCall("get_game_consensus", i, batches[i], "none") : i \in DOMAIN batches}
    IN IF games # "data"
       THEN [calls |-> {g}, msgs |-> Shown({g}), ret |-> "empty"]
       ELSE [calls |-> {g} \cup bs, msgs |-> {},
             ret |-> IF \E i \in DOMAIN batches : batches[i] = "data"
                     THEN "data" ELSE "empty"]

\* get_user_performance_data(user_id, selected_seasons)
get_user_performance_data(user, games, mnf, consensus, picks) ==
    LET text == "Error calculating user stats"
        g == Call("user_games", games, text)
        m == get_mnf_pool_data(mnf)
        c == Call("get_game_consensus", consensus, "none")
        p == Call("user_picks", picks, text)
        sofar == {g} \cup m.calls
    IN IF games # "data"
       THEN [calls |-> {g}, msgs |-> Shown({g}), ret |-> "empty"]
       ELSE IF user = "median"
       THEN [calls |-> sofar \cup {c}, msgs |-> m.msgs,
             ret |-> IF consensus = "data" THEN "data" ELSE "empty"]
       ELSE IF picks # "data"
       THEN [calls |-> sofar \cup {p}, msgs |-> m.msgs \cup Shown({p}), ret |-> "empty"]
       ELSE [calls |-> sofar \cup {p, c}, msgs |-> m.msgs, ret |-> "data"]

InitFetch ==
    /\ pc = "start"
    /\ error = "none"
    /\ messages = {}
    /\ Tab1Idle /\ HerdIdle /\ LuckIdle /\ MnfIdle /\ FetchIdle /\ RosterIdle
    /\ UserIdle /\ UploadIdle /\ CacheIdle /\ PoolIdle /\ RunIdle

\* a fetch function has been called: its requests, messages and return value
Ran(fn, res) ==
    /\ calls' = calls \cup res.calls
    /\ messages' = messages \cup res.msgs
    /\ returned' = returned \cup {<<fn, res.ret>>}

\* the sidebar: without seasons the script stops
AvailableSeasons ==
    /\ pc = "start"
    /\ \E o \in Outcomes :
          LET res == get_available_seasons(o)
          IN /\ calls' = calls \cup res.calls
             /\ returned' = returned \cup {<<"get_available_seasons", res.ret>>}
             /\ messages' = messages \cup res.msgs
                              \cup (IF res.ret = "empty" THEN {"No seasons found."} ELSE {})
             /\ pc' = IF res.ret = "empty" THEN "stopped" ELSE "raw"
    /\ UNCHANGED <<error, selected_user>>
    /\ UNCHANGED <<tab1vars, herdvars, luckvars, mnfvars, rostervars, uservars, uploadvars, cachevars, poolvars, runvars>>

RawSpreadData ==
    /\ pc = "raw"
    /\ \E o \in Outcomes :
          Ran("get_raw_spread_data",
              fetch_or_report("get_spread_stats", o, "Error fetching spread stats"))
    /\ pc' = "herd"
    /\ UNCHANGED <<error, selected_user>>
    /\ UNCHANGED <<tab1vars, herdvars, luckvars, mnfvars, rostervars, uservars, uploadvars, cachevars, poolvars, runvars>>

GlobalHerdDistribution ==
    /\ pc = "herd"
    /\ \E g \in Outcomes, n \in 1..MaxBatches :
          \E bs \in [1..n -> Outcomes] :
              Ran("get_global_herd_distribution", get_global_herd_distribution(g, bs))
    /\ pc' = "global"
    /\ UNCHANGED <<error, selected_user>>
    /\ UNCHANGED <<tab1vars, herdvars, luckvars, mnfvars, rostervars, uservars, uploadvars, cachevars, poolvars, runvars>>

GlobalGameStats ==
    /\ pc = "global"
    /\ \E o \in Outcomes : Ran("get_global_game_stats", get_global_game_stats(o))
    /\ pc' = "users"
    /\ UNCHANGED <<error, selected_user>>
    /\ UNCHANGED <<tab1vars, herdvars, luckvars, mnfvars, rostervars, uservars, uploadvars, cachevars, poolvars, runvars>>

\* Tab 2: the roster, then the Select User box; a named user can be selected
\* only from a roster that was fetched
UniqueUsers ==
    /\ pc = "users"
    /\ \E o \in Outcomes, u \in {"median", "named"} :
          /\ u = "named" => o = "data"
          /\ Ran("get_unique_users",
                 fetch_or_report("roster", o, "Error fetching users"))
          /\ selected_user' = u
    /\ pc' = "perf"
    /\ UNCHANGED error
    /\ UNCHANGED <<tab1vars, herdvars, luckvars, mnfvars, rostervars, uservars, uploadvars, cachevars, poolvars, runvars>>

UserPerformanceData ==
    /\ pc = "perf"
    /\ \E g \in Outcomes, m \in Outcomes, c \in Outcomes, p \in Outcomes :
          LET res == get_user_performance_data(selected_user, g, m, c, p)
          IN /\ calls' = calls \cup res.calls
             /\ returned' = returned \cup {<<"get_user_performance_data", res.ret>>}
             /\ messages' = messages \cup res.msgs
                              \cup (IF res.ret = "empty" THEN {"No data for this user."}
                                    ELSE {})
    /\ pc' = "done"
    /\ UNCHANGED <<error, selected_user>>
    /\ UNCHANGED <<tab1vars, herdvars, luckvars, mnfvars, rostervars, uservars, uploadvars, cachevars, poolvars, runvars>>

NextFetch ==
    \/ AvailableSeasons
    \/ RawSpreadData
    \/ GlobalHerdDistribution
    \/ GlobalGameStats
    \/ UniqueUsers
    \/ UserPerformanceData

SpecFetch == InitFetch /\ [][NextFetch]_vars

\* C7: every remote fetch is attempted once, and one that fails yields an
\* empty result for its query together with a user-visible message; no
\* failure ends the run and none is swallowed silently.
Claim_C7_FailedFetchReported ==
    /\ error = "none"
    /\ \A c \in calls :
          /\ c.attempts = 1
          /\ c.failed => (c.empty /\ c.msg # "none" /\ c.msg \in messages)

\* ------------------------------------------------------------ the roster
\* a string is the sequence of its characters
MedianPicker == <<" ", "M", "e", "d", "i", "a", "n", " ", "P", "i", "c", "k", "e", "r">>

\* the username cells (column C) a workbook may hold; <<>> is an empty cell
NameCells == {<<>>,
              MedianPicker,
              <<"M", "e", "d", "i", "a", "n", " ", "P", "i", "c", "k", "e", "r">>,
              <<"a", "l", " ">>,
              <<"a", "l">>,
              <<"B", "o">>,
              <<" ", "P", "a", "m">>,
              <<" ">>}

\* ord() of the characters in use
CodePoint == [c \in {" ", "B", "M", "P", "a", "c", "d", "e", "i", "k", "l", "m", "n", "o", "r"} |->
    CASE c = " " -> 32 [] c = "B" -> 66 [] c = "M" -> 77 [] c = "P" -> 80
      [] c = "a" -> 97 [] c = "c" -> 99 [] c = "d" -> 100 [] c = "e" -> 101
      [] c = "i" -> 105 [] c = "k" -> 107 [] c = "l" -> 108 [] c = "m" -> 109 [] c = "n" -> 110
      [] c = "o" -> 111 [] c = "r" -> 114]

\* a < b as Python orders strings
RECURSIVE StrLess(_, _)
StrLess(a, b) ==
    IF b = <<>> THEN FALSE
    ELSE IF a = <<>> THEN TRUE
    ELSE IF a[1] # b[1] THEN CodePoint[a[1]] < CodePoint[b[1]]
    ELSE StrLess(Tail(a), Tail(b))

\* sorted() of a set of strings
RECURSIVE SortedStrings(_)
SortedStrings(S) ==
    IF S = {} THEN <<>>
    ELSE LET m == CHOOSE x \in S : \A y \in S \ {x} : StrLess(x, y)
         IN <<m>> \o SortedStrings(S \ {m})

RECURSIVE LStrip(_)
LStrip(str) ==
    IF str # <<>> /\ str[1] = " " THEN LStrip(Tail(str)) ELSE str

RECURSIVE RStrip(_)
RStrip(str) ==
    IF str # <<>> /\ str[Len(str)] = " "
    THEN RStrip(SubSeq(str, 1, Len(str) - 1)) ELSE str

\* a mutant of Strip: the cell's text is kept as it is
NoStrip(str) == str

\* str(username).strip()
Strip(str) == RStrip(LStrip(str))

\* the unique_usernames of a workbook whose username cells are cells: an
\* empty cell is skipped, the others are stripped
unique_usernames(cells) ==
    {Strip(cells[i]) : i \in {j \in DOMAIN cells : cells[j] # <<>>}}

\* get_unique_users, given the client, what the backend did and the User table
get_unique_users(has_client, outcome, table) ==
    IF ~has_client THEN [users |-> <<MedianPicker>>, msg |-> {}]
    ELSE IF outcome = "fail"
    THEN [users |-> <<MedianPicker>>, msg |-> {"Error fetching users"}]
    ELSE [users |-> <<MedianPicker>> \o SortedStrings(table), msg |-> {}]

\* the script's configuration may lack the credentials: the client is None
InitRoster ==
    /\ pc = "start"
    /\ error = "none"
    /\ messages = {}
    /\ Tab1Idle /\ HerdIdle /\ LuckIdle /\ MnfIdle /\ FetchIdle
    /\ UserIdle /\ UploadIdle /\ CacheIdle /\ PoolIdle /\ RunIdle
    /\ client \in BOOLEAN
    /\ User = {}
    /\ user_list = Null

\* upload_pool_data, part 1: the usernames of a workbook are upserted; when
\* the upsert raises the run returns and the table is as it was
UploadUsers ==
    /\ pc = "start"
    /\ \E n \in 1..MaxCells :
          \E cells \in [1..n -> NameCells], upsert \in {"ok", "fail"} :
              User' = IF upsert = "ok" THEN User \cup unique_usernames(cells) ELSE User
    /\ UNCHANGED <<pc, error, messages, client, user_list>>
    /\ UNCHANGED <<tab1vars, herdvars, luckvars, mnfvars, fetchvars, uservars, uploadvars, cachevars, poolvars, runvars>>

\* user_list = get_unique_users()
GetUniqueUsers ==
    /\ pc = "start"
    /\ \E outcome \in {"ok", "fail"} :
          LET res == get_unique_users(client, outcome, User)
          IN /\ user_list' = Some(res.users)
             /\ messages' = messages \cup res.msg
    /\ pc' = "done"
    /\ UNCHANGED <<error, client, User>>
    /\ UNCHANGED <<tab1vars, herdvars, luckvars, mnfvars, fetchvars, uservars, uploadvars, cachevars, poolvars, runvars>>

NextRoster == UploadUsers \/ GetUniqueUsers

SpecRoster == InitRoster /\ [][NextRoster]_vars

\* C10: whatever get_unique_users met (no client, a roster of any usernames
\* or none, a failed fetch), the roster it returns starts with the Median
\* Picker entry and holds it exactly once.
Thm_C10_MedianPickerFirstOnce ==
    pc = "done" =>
        /\ Val(user_list)[1] = MedianPicker
        /\ Cardinality({i \in DOMAIN Val(user_list) : Val(user_list)[i] = MedianPicker}) = 1

\* C10 witness: the roster was fetched from a table holding a name uploaded
\* from the cell " Median Picker" and a name that sorts before every letter
Wit_C10_FetchedRoster ==
    /\ pc = "done"
    /\ client
    /\ Strip(MedianPicker) \in User
    /\ <<>> \in User
    /\ Len(Val(user_list)) = 3

\* ------------------------------------------------------------ Tab 2: the per-user derivation
InitUser ==
    /\ pc = "start"
    /\ error = "none"
    /\ messages = {}
    /\ Tab1Idle /\ HerdIdle /\ LuckIdle /\ MnfIdle /\ FetchIdle /\ RosterIdle
    /\ UploadIdle /\ CacheIdle /\ PoolIdle /\ RunIdle
    /\ game \in GameTables
    /\ user_id = "none"
    /\ df_user = Null
    /\ df_user_stats = Null

\* selected_user = st.selectbox("Select User", user_list)
SelectUser ==
    /\ pc = "start"
    /\ \E u \in {"median", "named"} : user_id' = u
    /\ pc' = "fetch"
    /\ UNCHANGED <<error, messages, game, df_user, df_user_stats>>
    /\ UNCHANGED <<tab1vars, herdvars, luckvars, mnfvars, fetchvars, rostervars,
                   uploadvars, cachevars, poolvars, runvars>>

\* df = get_user_performance_data(selected_user, selected_seasons), with what
\* the pick query and get_game_consensus answer; get_mnf_pool_data is empty
GetUserPerformanceData ==
    /\ pc = "fetch"
    /\ \E picks \in [DOMAIN game -> PickRows],
          consensus \in [DOMAIN game -> ConsensusRows] :
          LET rows == user_table(user_id, game, picks, consensus,
                                 [i \in DOMAIN game |-> Null])
          IN /\ df_user' = Some(rows)
             /\ IF rows = <<>>
                THEN /\ messages' = messages \cup {"No data for this user."}
                     /\ pc' = "done"
                ELSE /\ pc' = "tab2"
                     /\ UNCHANGED messages
    /\ UNCHANGED <<error, game, user_id, df_user_stats>>
    /\ UNCHANGED <<tab1vars, herdvars, luckvars, mnfvars, fetchvars, rostervars,
                   uploadvars, cachevars, poolvars, runvars>>

\* Tab 2 adds its columns to df, the luck slider at its default, and builds
\* the team breakdown from them
Tab2Columns ==
    /\ pc = "tab2"
    /\ df_user' = Some(tab2_columns(Val(df_user), luck_threshold))
    /\ df_user_stats' = Some(df_user_stats_of(tab2_columns(Val(df_user), luck_threshold)))
    /\ pc' = "done"
    /\ UNCHANGED <<error, messages, game, user_id>>
    /\ UNCHANGED <<tab1vars, herdvars, luckvars, mnfvars, fetchvars, rostervars,
                   uploadvars, cachevars, poolvars, runvars>>

NextUser == SelectUser \/ GetUserPerformanceData \/ Tab2Columns

SpecUser == InitUser /\ [][NextUser]_vars

\* the rows of the per-user table once the call has returned
UserRows == IF IsNull(df_user) THEN <<>> ELSE Val(df_user)

\* the rows once Tab 2 has added its columns
DerivedRows == IF pc = "done" THEN UserRows ELSE <<>>

\* C13: every row of the table get_user_performance_data returns, for either
\* kind of participant, has tie_spread = false, so the columns Tab 2 derives are
\* over non-tie games only.
Thm_C13_NoTieRows ==
    \A i \in DOMAIN UserRows :
        /\ ~UserRows[i].tie_spread
        /\ \E j \in DOMAIN game :
              /\ game[j].game_id = UserRows[i].game_id
              /\ ~game[j].tie_spread

\* C13 witness: the game table holds a push and another game, and the derived
\* table holds the other game only
Wit_C13_PushDropped ==
    /\ pc = "done"
    /\ Len(game) = 2
    /\ game[1].tie_spread
    /\ Len(UserRows) = 1
    /\ UserRows[1].game_id = 2
    /\ "user_won" \in DOMAIN UserRows[1]

\* the share of the valid picks that chose home, per the row's consensus cell
\* (tenths of a percent); -1 when the consensus has no figure for the game
HomeShare(r) == IF IsNull(r.home_pick_pct) THEN -1 ELSE Val(r.home_pick_pct)

\* the non-tie games of the backend
NonTieGames == {j \in DOMAIN game : ~game[j].tie_spread}

\* the Median Picker's table has been returned with rows
MedianTable == user_id = "median" /\ pc \in {"tab2", "done"} /\ UserRows # <<>>

\* C11 as stated: for the Median Picker, on every non-tie game, pick_home is
\* true exactly when more than half of the valid picks chose home and false
\* exactly when more than half chose away.
Orig_C11_MajorityPick ==
    MedianTable =>
        /\ {UserRows[i].game_id : i \in DOMAIN UserRows} = NonTieGames
        /\ \A i \in DOMAIN UserRows :
              /\ UserRows[i].pick_home <=> HomeShare(UserRows[i]) > 500
              /\ ~UserRows[i].pick_home <=>
                    (HomeShare(UserRows[i]) >= 0 /\ HomeShare(UserRows[i]) < 500)

\* C11 amended: when the consensus has a row for at least one non-tie game,
\* the Median Picker has a row for every non-tie game, with pick_home true
\* exactly when more than half of the valid picks chose home; it is false when
\* more than half chose away, on an even split, and when the consensus has no
\* row for the game.
Thm_C11_HomeOnlyOnMajority ==
    MedianTable =>
        /\ {UserRows[i].game_id : i \in DOMAIN UserRows} = NonTieGames
        /\ \A i \in DOMAIN UserRows :
              /\ UserRows[i].pick_home <=> HomeShare(UserRows[i]) > 500
              /\ HomeShare(UserRows[i]) <= 500 => ~UserRows[i].pick_home

\* C11 witness: the Median Picker's table with a home majority picked home, an
\* even split picked away
Wit_C11_EvenSplitAway ==
    /\ MedianTable
    /\ Len(UserRows) = 2
    /\ HomeShare(UserRows[1]) = 700 /\ UserRows[1].pick_home
    /\ HomeShare(UserRows[2]) = 500 /\ ~UserRows[2].pick_home

\* C16: in the per-user derivation no step raises, a null user_margin is never
\* assigned a luck bucket and a null home_pick_pct is never assigned a herd
\* category.
Claim_C16_NullsShortCircuit ==
    /\ error = "none"
    /\ \A i \in DOMAIN DerivedRows :
          /\ "luck_bucket" \in DOMAIN DerivedRows[i] =>
                ~IsNull(DerivedRows[i].user_margin)
          /\ "herd_status" \in DOMAIN DerivedRows[i] =>
                ~IsNull(DerivedRows[i].home_pick_pct)

\* ------------------------------------------------------------ the query cache
\* the season selections and the participants of the model
SeasonSets == {"2023", "2023,2024"}
CacheUsers == {"median", "named"}

\* the functions under @st.cache_data whose argument is selected_seasons
SeasonQueries == {"get_raw_spread_data", "get_mnf_pool_data", "get_global_game_stats",
                  "get_global_herd_distribution"}

\* a cache entry is named by the function and its arguments
SeasonKey(fn, seasons) == [fn |-> fn, seasons |-> seasons, user |-> "-"]
UserKey(user, seasons) ==
    [fn |-> "get_user_performance_data", seasons |-> seasons, user |-> user]
CacheKeys ==
    {SeasonKey(fn, s) : fn \in SeasonQueries, s \in SeasonSets}
        \cup {UserKey(u, s) : u \in CacheUsers, s \in SeasonSets}

\* the cached calls of a run with these selections: Tab 1 and the pool
\* baselines by seasons, Tab 2 by participant and seasons (get_mnf_pool_data
\* is called from within get_user_performance_data)
CachedCalls(seasons, user) ==
    {SeasonKey(fn, seasons) : fn \in SeasonQueries} \cup {UserKey(user, seasons)}

\* a mutant of cache_lookup: an entry older than the backend's data is a miss
cache_lookup_fresh(entries, key, current) ==
    IF ~IsNull(entries[key]) /\ Val(entries[key]).version = current
    THEN entries[key] ELSE Null

\* st.cache_data without ttl or max_entries: an entry stored under the key is
\* a hit whatever the backend holds by now
cache_lookup(entries, key, current) == entries[key]

\* the entry of a key after a call: the hit, or what is fetched now
cache_after(entries, key, current) ==
    IF IsNull(cache_lookup(entries, key, current))
    THEN Some([version |-> current])
    ELSE cache_lookup(entries, key, current)

InitCache ==
    /\ pc = "start"
    /\ error = "none"
    /\ messages = {}
    /\ Tab1Idle /\ HerdIdle /\ LuckIdle /\ MnfIdle /\ FetchIdle /\ RosterIdle
    /\ UserIdle /\ UploadIdle /\ PoolIdle /\ RunIdle
    /\ store = 0
    /\ cache = [k \in CacheKeys |-> Null]
    /\ fetched = [k \in CacheKeys |-> 0]
    /\ selection = Null

\* one interaction: the script runs with the selected seasons and participant
\* and makes its cached calls; a miss fetches from the backend and is stored
Interaction ==
    /\ \E s \in SeasonSets, u \in CacheUsers :
          LET made == CachedCalls(s, u)
              after == [k \in CacheKeys |->
                           IF k \in made THEN cache_after(cache, k, store)
                           ELSE cache[k]]
              Miss(k) == k \in made /\ IsNull(cache_lookup(cache, k, store))
          IN /\ cache' = after
             /\ fetched' = [k \in CacheKeys |->
                               IF Miss(k) THEN fetched[k] + 1 ELSE fetched[k]]
             /\ selection' = Some([seasons |-> s, user |-> u, at |-> store,
                                   results |-> [k \in made |-> Val(after[k])]])
    /\ pc' = "shown"
    /\ UNCHANGED <<error, messages, store>>
    /\ UNCHANGED <<tab1vars, herdvars, luckvars, mnfvars, fetchvars, rostervars,
                   uservars, uploadvars, poolvars, runvars>>

\* the uploader, or anyone else, changes the backend's data
BackendUpdate ==
    /\ store < MaxVersion
    /\ store' = store + 1
    /\ UNCHANGED <<pc, error, messages, cache, fetched, selection>>
    /\ UNCHANGED <<tab1vars, herdvars, luckvars, mnfvars, fetchvars, rostervars,
                   uservars, uploadvars, poolvars, runvars>>

\* the process is restarted: the cache starts empty
ProcessRestart ==
    /\ pc = "shown"
    /\ pc' = "start"
    /\ cache' = [k \in CacheKeys |-> Null]
    /\ fetched' = [k \in CacheKeys |-> 0]
    /\ selection' = Null
    /\ UNCHANGED <<error, messages, store>>
    /\ UNCHANGED <<tab1vars, herdvars, luckvars, mnfvars, fetchvars, rostervars,
                   uservars, uploadvars, poolvars, runvars>>

NextCache == Interaction \/ BackendUpdate \/ ProcessRestart

SpecCache == InitCache /\ [][NextCache]_vars

\* C15: once a cached query has returned for a key, every later interaction
\* with that key gets the same result without a new remote fetch, whatever
\* the backend holds by then; only a process restart or a key not seen yet
\* fetches.
Thm_C15_CacheKeyedByArguments ==
    [][\A k \in CacheKeys :
          /\ (~IsNull(cache[k]) /\ pc' # "start") =>
                /\ cache'[k] = cache[k]
                /\ fetched'[k] = fetched[k]
                /\ (~IsNull(selection') /\ k \in DOMAIN Val(selection').results) =>
                      Val(selection').results[k] = Val(cache[k])
          /\ fetched'[k] > fetched[k] => (IsNull(cache[k]) /\ fetched[k] = 0)]_vars

\* C15 witness: an interaction made after the backend changed was served, for
\* a key fetched once, the result of before the change
Wit_C15_StaleServed ==
    /\ pc = "shown"
    /\ ~IsNull(selection)
    /\ Val(selection).at = 1
    /\ \E k \in DOMAIN Val(selection).results :
          /\ Val(selection).results[k].version = 0
          /\ fetched[k] = 1
    /\ \E k \in DOMAIN Val(selection).results :
          Val(selection).results[k].version = 1

\* ------------------------------------------------------------ further claims on the spread analysis
\* C17: the cached raw result stays as it was fetched whatever the
\* interactions, and rebin_data leaves the rows and columns of the table it is
\* given unchanged.
Claim_C17_NoSharedMutation ==
    /\ (raw_cached /\ ~IsEmpty(df_raw)) => df_raw.columns = RawColumns
    /\ Tab1Ran => df_filtered = FilterRows(df_raw, spread_filter)

\* the input rows whose rounded spread lies in the bucket starting at key
RowsInBucket(key) ==
    LET In(r) == /\ key <= Round1(Val(r.home_spread))
                 /\ Round1(Val(r.home_spread)) < key + bin_size
    IN SelectSeq(df_filtered.rows, In)

\* q is numer / max(denom, 1) * 100
IsPctOf(q, numer, denom) ==
    /\ IsNum(q)
    /\ q.num * (IF denom = 0 THEN 1 ELSE denom) = 100 * numer * q.den

\* Tab 1 has run on the rows at -3.0 (1 game, 1 cover, 1 home pick, 1 pick)
\* and -2.6 (1 game, 0 covers, 0 home picks, 1 pick) with width 0.5
MergeScenario ==
    /\ Tab1Ran /\ bin_size = 5
    /\ Len(df_filtered.rows) = 2
    /\ df_filtered.rows[1].home_spread = Some(-300)
    /\ df_filtered.rows[2].home_spread = Some(-260)
    /\ df_filtered.rows[1].total_games = 1 /\ df_filtered.rows[1].total_covers = 1
    /\ df_filtered.rows[1].total_home_picks = 1
    /\ df_filtered.rows[1].total_picks_made = 1
    /\ df_filtered.rows[2].total_games = 1 /\ df_filtered.rows[2].total_covers = 0
    /\ df_filtered.rows[2].total_home_picks = 0
    /\ df_filtered.rows[2].total_picks_made = 1

\* C18: the input rows whose rounded spreads share a bin floor become one
\* output row, whose counters are their sums and whose percentages are taken
\* from the sums; at width 0.5 the rows at -3.0 (1, 1, 1, 1) and -2.6
\* (1, 0, 0, 1) give one row: bin floor -3.0, 2 games, 1 cover, 50.0 % covered.
Thm_C18_BucketMerge ==
    (Tab1Ran /\ ~IsEmpty(df_filtered)) =>
        /\ \A k, l \in DOMAIN df_display.rows :
              df_display.rows[k].bin_floor = df_display.rows[l].bin_floor => k = l
        /\ \A k \in DOMAIN df_display.rows :
              LET r == df_display.rows[k]
                  g == RowsInBucket(r.bin_floor)
              IN /\ g # <<>>
                 /\ r.bin_floor % bin_size = 0
                 /\ r.total_games = SumSeq(g, "total_games")
                 /\ r.total_covers = SumSeq(g, "total_covers")
                 /\ r.total_home_picks = SumSeq(g, "total_home_picks")
                 /\ r.total_picks_made = SumSeq(g, "total_picks_made")
                 /\ IsPctOf(r.pct_games_home_covered, r.total_covers, r.total_games)
                 /\ IsPctOf(r.pct_picks_home, r.total_home_picks, r.total_picks_made)
        /\ MergeScenario =>
              /\ Len(df_display.rows) = 1
              /\ df_display.rows[1].bin_floor = -30
              /\ df_display.rows[1].total_games = 2
              /\ df_display.rows[1].total_covers = 1
              /\ IsPctOf(df_display.rows[1].pct_games_home_covered, 1, 2)

\* C18 witness: the scenario has run and its two rows came out as one
Wit_C18_ScenarioMerged ==
    /\ MergeScenario
    /\ pc = "done"
    /\ Len(df_display.rows) = 1
    /\ df_display.rows[1].pct_games_home_covered = Rat(100, 2)

\* ------------------------------------------------------------ claims on the luck percentages
\* the sum of the numerators of quotients over one denominator
RECURSIVE SumPercentNum(_, _)
SumPercentNum(counts, B) ==
    IF B = {} THEN 0
    ELSE LET b == CHOOSE x \in B : TRUE
         IN counts[b].Percent.num + SumPercentNum(counts, B \ {b})

\* C19: a bucket's percentage is the number of the participant's games in the
\* bucket over the number of all the participant's games, times 100, so the
\* percentages of the buckets that occur add up to 100; margins [0, 3, -1]
\* with t = 2.5 are [Bad Beat, Convincing Win, Bad Beat], 66.7 % and 33.3 %.
Thm_C19_LuckPercent ==
    (pc = "done" /\ ~IsNull(luck_counts)) =>
        LET counts == Val(luck_counts)
            n == Len(user_margins)
            InBucket(b) == {i \in 1..n : luck_buckets[i] = b}
        IN /\ \A b \in DOMAIN counts :
                 /\ counts[b].Count = Cardinality(InBucket(b))
                 /\ counts[b].Count > 0
                 /\ IsNum(counts[b].Percent)
                 /\ counts[b].Percent.den = n
                 /\ counts[b].Percent.num = 100 * Cardinality(InBucket(b))
           /\ \A i \in 1..n : luck_buckets[i] \in DOMAIN counts
           /\ \A i \in 1..n :
                 ~IsNull(user_margins[i]) =>
                     luck_buckets[i].name = SpecBucket(Val(user_margins[i]), luck_threshold)
           /\ SumPercentNum(counts, DOMAIN counts) = 100 * n
           /\ (user_margins = <<Some(0), Some(30), Some(-10)>> /\ luck_threshold = 25) =>
                 /\ [i \in 1..3 |-> luck_buckets[i].name]
                      = <<"Bad Beat", "Convincing Win", "Bad Beat">>
                 /\ DOMAIN counts = {Bucket("Bad Beat", 25), Bucket("Convincing Win", 25)}
                 /\ Fmt1(counts[Bucket("Bad Beat", 25)].Percent) = 667
                 /\ Fmt1(counts[Bucket("Convincing Win", 25)].Percent) = 333

\* C19 witness: the scenario's three margins have been counted at t = 2.5
Wit_C19_Scenario ==
    /\ pc = "done"
    /\ luck_threshold = 25
    /\ user_margins = <<Some(0), Some(30), Some(-10)>>
    /\ ~IsNull(luck_counts)
    /\ Val(luck_counts)[Bucket("Bad Beat", 25)].Count = 2


\* ------------------------------------------------------------ the spread grid
\* Tab 1 over a grid of spreads: one row at every hundredth of a point, two
\* rows at every pair of tenths, a null spread beside a number or alone, and
\* the empty table
GridCell(h) == [t |-> "num", v |-> h]
GridRow(cell) == [home_spread |-> cell, total_games |-> 1, total_covers |-> 1,
                  total_home_picks |-> 1, total_picks_made |-> 1]
GridTenths == {10 * t : t \in (0 - MaxSpread)..MaxSpread}
GridTables ==
    {<<>>, <<GridRow([t |-> "null", v |-> 0])>>}
    \cup {<<GridRow(GridCell(h))>> : h \in (0 - 10 * MaxSpread)..(10 * MaxSpread)}
    \cup {<<GridRow(GridCell(a)), GridRow(GridCell(b))>> : a \in GridTenths, b \in GridTenths}
    \cup {<<GridRow(GridCell(a)), GridRow([t |-> "null", v |-> 0])>> : a \in GridTenths}

\* df_raw = get_raw_spread_data(selected_seasons) answered with a grid table
FetchSpreadGrid ==
    /\ pc = "start" /\ ~raw_cached
    /\ \E table \in GridTables :
          LET got == get_raw_spread_data("ok", table)
          IN /\ df_raw' = got.df
             /\ messages' = got.msg
    /\ raw_cached' = TRUE
    /\ pc' = "sidebar"
    /\ UNCHANGED <<error, spread_filter, bin_size, df_filtered, df_display>>
    /\ UNCHANGED <<herdvars, luckvars, mnfvars, fetchvars, rostervars, uservars, uploadvars, cachevars, poolvars, runvars>>

\* the Spread Range slider left at its default value (min_val, max_val)
DefaultSpreadSlider ==
    /\ pc = "sidebar"
    /\ LET rng == IF IsEmpty(df_raw) THEN [err |-> "none", lo |-> -100, hi |-> 100]
                  ELSE get_spread_range_from_data(df_raw)
       IN IF rng.err # "none"
          THEN /\ error' = rng.err
               /\ pc' = "crashed"
               /\ UNCHANGED spread_filter
          ELSE /\ spread_filter' = <<rng.lo, rng.hi>>
               /\ pc' = "tab1"
               /\ UNCHANGED error
    /\ UNCHANGED <<messages, df_raw, raw_cached, bin_size, df_filtered, df_display>>
    /\ UNCHANGED <<herdvars, luckvars, mnfvars, fetchvars, rostervars, uservars, uploadvars, cachevars, poolvars, runvars>>

NextGrid == FetchSpreadGrid \/ DefaultSpreadSlider \/ Tab1

SpecGrid == InitTab1 /\ [][NextGrid]_vars

\* the value in tenths that a formatted number stands for
LabelValue(f) == (IF f[1] = "-" THEN -1 ELSE 1) * (f[2] * 10 + f[3])

\* the two ends of the range a spread_bin label names
LabelLo(lbl) == LabelValue(lbl[1])
LabelHi(lbl) == LabelValue(lbl[Len(lbl)])

\* C21: for every width of the Bin Size slider and every spread, the bin floor
\* is a multiple of the width with bin_floor <= round(spread, 1) < bin_floor +
\* width; for a width other than 0.5 every spread of a bucket lies inside the
\* range its label names, and the ranges of two different buckets do not overlap.
Thm_C21_BinsPartition ==
    (pc = "done" /\ ~IsEmpty(df_raw)) =>
        /\ \A i \in DOMAIN df_filtered.rows :
              LET row == df_filtered.rows[i]
              IN ~IsNull(row.home_spread) =>
                    LET r == Round1(Val(row.home_spread))
                        bf == Val(row.bin_floor)
                    IN /\ bf % bin_size = 0
                       /\ bf <= r /\ r < bf + bin_size
                       /\ \A k \in DOMAIN df_display.rows :
                             (bin_size # 5 /\ df_display.rows[k].bin_floor = bf) =>
                                /\ LabelLo(df_display.rows[k].spread_bin) <= r
                                /\ r <= LabelHi(df_display.rows[k].spread_bin)
        /\ \A k, l \in DOMAIN df_display.rows :
              k # l =>
                 \/ LabelHi(df_display.rows[k].spread_bin) < LabelLo(df_display.rows[l].spread_bin)
                 \/ LabelHi(df_display.rows[l].spread_bin) < LabelLo(df_display.rows[k].spread_bin)

\* two neighbouring buckets of width 2.0: -2.5 in -4.0 to -2.1, -1.3 in -2.0 to -0.1
Wit_C21_NeighbourBuckets ==
    /\ pc = "done" /\ bin_size = 20
    /\ Len(df_display.rows) = 2
    /\ df_display.rows[1].spread_bin = <<<<"-", 4, 0>>, "to", <<"-", 2, 1>>>>
    /\ df_display.rows[2].spread_bin = <<<<"-", 2, 0>>, "to", <<"-", 0, 1>>>>
    /\ df_display.rows[1].home_spread = -250
    /\ df_display.rows[2].home_spread = -130


\* the rows of the raw table whose spread is not null
NonNullRows(df) == {i \in DOMAIN df.rows : ~IsNull(df.rows[i].home_spread)}

\* C28: for a non-empty raw table the bounds get_spread_range_from_data returns
\* are multiples of 0.5 with min_clean <= round(s, 1) <= max_clean for every
\* non-null spread s, so the slider's default range filters out no row with a
\* non-null spread; for an empty table the bounds are (-10.0, 10.0).
Thm_C28_DefaultRangeKeepsAll ==
    /\ (pc \in {"tab1", "done"} /\ ~IsEmpty(df_raw)) =>
          /\ spread_filter = <<get_spread_range_from_data(df_raw).lo,
                               get_spread_range_from_data(df_raw).hi>>
          /\ spread_filter[1] % 5 = 0 /\ spread_filter[2] % 5 = 0
          /\ \A i \in NonNullRows(df_raw) :
                /\ spread_filter[1] <= Round1(Val(df_raw.rows[i].home_spread))
                /\ Round1(Val(df_raw.rows[i].home_spread)) <= spread_filter[2]
    /\ (pc = "done" /\ ~IsEmpty(df_raw)) =>
          /\ Len(df_filtered.rows) = Cardinality(NonNullRows(df_raw))
          /\ \A i \in NonNullRows(df_raw) :
                \E j \in DOMAIN df_filtered.rows :
                   df_filtered.rows[j].home_spread = df_raw.rows[i].home_spread
    /\ (pc \in {"tab1", "done"} /\ IsEmpty(df_raw)) =>
          /\ get_spread_range_from_data(df_raw) = [err |-> "none", lo |-> -100, hi |-> 100]
          /\ spread_filter = <<-100, 100>>

\* a spread of -2.96 alone: the bounds are (-3.0, -2.5) and the row is kept
Wit_C28_OffGridSpread ==
    /\ pc = "done"
    /\ Len(df_raw.rows) = 1
    /\ df_raw.rows[1].home_spread = Some(-296)
    /\ spread_filter = <<-30, -25>>
    /\ Len(df_filtered.rows) = 1


\* the row's home_cover is the stored home_score + home_spread > away_score and
\* the game is not a tie against the spread
CoverAsStored(r) ==
    /\ ~IsNull(r.home_spread)
    /\ r.home_cover = (r.home_score * 10 + Val(r.home_spread) > r.away_score * 10)
    /\ r.home_score * 10 + Val(r.home_spread) # r.away_score * 10

WinBuckets == {"Lucky Win", "Convincing Win"}

\* C22: for every row of the per-user table whose home_cover is the stored
\* comparison and which is not a tie against the spread, user_won holds exactly
\* when user_margin > 0, and the row is in a Win luck bucket exactly when
\* user_won holds.
Thm_C22_WonIffPositiveMargin ==
    \A i \in DOMAIN DerivedRows :
        CoverAsStored(DerivedRows[i]) =>
            /\ DerivedRows[i].user_won <=>
                  (~IsNull(DerivedRows[i].user_margin) /\ Val(DerivedRows[i].user_margin) > 0)
            /\ (DerivedRows[i].luck_bucket.name \in WinBuckets) <=> DerivedRows[i].user_won

\* an away pick on a game the home side covered by 7.0 (a Blowout Loss) beside
\* an away pick on a game the away side covered by 0.5 (a Lucky Win)
Wit_C22_AwayPicks ==
    /\ pc = "done"
    /\ Len(DerivedRows) = 2
    /\ ~DerivedRows[1].pick_home /\ ~DerivedRows[1].user_won
    /\ DerivedRows[1].user_margin = Some(-70)
    /\ DerivedRows[1].luck_bucket.name = "Blowout Loss"
    /\ ~DerivedRows[2].pick_home /\ DerivedRows[2].user_won
    /\ DerivedRows[2].user_margin = Some(5)
    /\ DerivedRows[2].luck_bucket.name = "Lucky Win"


\* the team breakdown once Tab 2 has built it
TeamStats == IF pc = "done" /\ ~IsNull(df_user_stats) THEN Val(df_user_stats) ELSE <<>>

\* the rows of the per-user table in which team t covered the spread
GamesCovered(t) ==
    {i \in DOMAIN DerivedRows :
        \/ DerivedRows[i].home_team_id = t /\ DerivedRows[i].home_cover
        \/ DerivedRows[i].away_team_id = t /\ ~DerivedRows[i].home_cover}

\* the rows of the per-user table in which team t played
GamesPlayed(t) ==
    {i \in DOMAIN DerivedRows :
        DerivedRows[i].home_team_id = t \/ DerivedRows[i].away_team_id = t}

\* C23: after the team-breakdown loop, for every team the derived team_covers
\* (for_win + against_loss) is the number of the participant's games in which
\* the team covered, and total_games the number of those games it played in.
Thm_C23_TeamCovers ==
    /\ \A t \in DOMAIN TeamStats :
          /\ TeamStats[t].team_covers = Cardinality(GamesCovered(t))
          /\ TeamStats[t].total_games = Cardinality(GamesPlayed(t))
    /\ pc = "done" /\ ~IsNull(df_user_stats) =>
          \A i \in DOMAIN DerivedRows :
             {DerivedRows[i].home_team_id, DerivedRows[i].away_team_id}
                \subseteq DOMAIN TeamStats

\* BUF lost at KC against the spread and then covered at home, picked against
\* both times: against_win 1, against_loss 1, team_covers 1 of total_games 2
Wit_C23_BothSides ==
    /\ pc = "done" /\ ~IsNull(df_user_stats)
    /\ Len(DerivedRows) = 2
    /\ DerivedRows[1].pick_home /\ DerivedRows[1].home_cover
    /\ ~DerivedRows[2].pick_home /\ DerivedRows[2].home_cover
    /\ TeamStats["BUF"].against_win = 1
    /\ TeamStats["BUF"].against_loss = 1
    /\ TeamStats["BUF"].team_covers = 1
    /\ TeamStats["BUF"].total_games = 2


\* C25: the Median Picker is never classified Contrarian (Lone Wolf): whatever
\* the pool's home-pick percentage of a game, or with the game missing from the
\* consensus, the herd status of the synthetic pick is Herd (Chalk) or Neutral.
Claim_C25_MedianNeverContrarian ==
    user_id = "median" =>
        \A i \in DOMAIN DerivedRows :
            DerivedRows[i].herd_status \in {Herd, Neutral}


\* ------------------------------------------------------------ Tab 2: the pool baselines
\* a row of the get_global_game_stats RPC: home_margin in tenths of a point
\* (null while the game is not finished), home_pick_pct in tenths of a percent
GlobalMargins == {Null, Some(30), Some(0), Some(-5)}
GlobalPcts == {Null, Some(333), Some(600), Some(1000)}
GlobalRows == {[home_margin |-> m, home_pick_pct |-> q] :
               m \in GlobalMargins, q \in GlobalPcts}
GlobalTables == UNION {[1..n -> GlobalRows] : n \in 0..MaxStats}

\* luck_order under threshold t
luck_order(t) == {Bucket(n, t) : n \in {"Blowout Loss", "Bad Beat", "Lucky Win", "Convincing Win"}}

\* a mutant of away_share: the away side is given the home side's share
away_share_same(p) == p

\* 100.0 - p_home
away_share(p) == 1000 - p

\* df_global_stats.dropna(subset=['home_margin'])
df_finished(stats) ==
    LET Finished(r) == ~IsNull(r.home_margin) IN SelectSeq(stats, Finished)

\* the pool's luck baseline: pool_luck_counts over total_global_weight, times
\* 100, per bucket of luck_order; no row when total_global_weight is 0
pool_luck_of(stats, t) ==
    LET fin == df_finished(stats)
        Weight(b) ==
            SumSeq([i \in DOMAIN fin |->
                      [w |-> (IF classify_luck(fin[i].home_margin, t) = b
                              THEN pool_p_home(fin[i].home_pick_pct) ELSE 0)
                             + (IF classify_luck(Some(0 - Val(fin[i].home_margin)), t) = b
                                THEN away_share(pool_p_home(fin[i].home_pick_pct)) ELSE 0)]],
                   "w")
        total_global_weight == 1000 * Len(fin)
    IN IF total_global_weight > 0
       THEN [b \in luck_order(t) |-> FloatDiv(Weight(b) * 100, total_global_weight)]
       ELSE <<>>

\* the pool's herd baseline: per category its share of the weight and its
\* win rate (0.0 for a category without weight); no row when the weight is 0
pool_herd_of(stats) ==
    LET fin == df_finished(stats)
        PH(i) == pool_p_home(fin[i].home_pick_pct)
        PA(i) == away_share(PH(i))
        Counts(c) ==
            SumSeq([i \in DOMAIN fin |->
                      [w |-> (IF pool_herd_cat(PH(i)) = c THEN PH(i) ELSE 0)
                             + (IF pool_herd_cat(PA(i)) = c THEN PA(i) ELSE 0)]], "w")
        Wins(c) ==
            SumSeq([i \in DOMAIN fin |->
                      [w |-> IF Val(fin[i].home_margin) > 0
                             THEN (IF pool_herd_cat(PH(i)) = c THEN PH(i) ELSE 0)
                             ELSE (IF pool_herd_cat(PA(i)) = c THEN PA(i) ELSE 0)]], "w")
        total_global_herd_weight == 1000 * Len(fin)
    IN IF total_global_herd_weight > 0
       THEN [c \in {Herd, Contrarian, Neutral} |->
               [PoolPct |-> FloatDiv(Counts(c) * 100, total_global_herd_weight),
                PoolWinRate |-> IF Counts(c) > 0 THEN FloatDiv(Wins(c) * 100, Counts(c))
                                ELSE Rat(0, 1)]]
       ELSE <<>>

InitPool ==
    /\ pc = "start"
    /\ error = "none"
    /\ messages = {}
    /\ Tab1Idle /\ HerdIdle /\ LuckIdle /\ MnfIdle /\ FetchIdle /\ RosterIdle
    /\ UserIdle /\ UploadIdle /\ CacheIdle /\ PoolIdle /\ RunIdle

\* df_global_stats = get_global_game_stats(selected_seasons): the RPC's rows,
\* or an empty frame and an error message when the call raises
GetGlobalGameStats ==
    /\ pc = "start"
    /\ \/ /\ \E table \in GlobalTables : df_global_stats' = table
          /\ UNCHANGED messages
       \/ /\ df_global_stats' = <<>>
          /\ messages' = messages \cup {"Error fetching global game stats"}
    /\ pc' = "luck"
    /\ UNCHANGED <<error, df_pool_luck, df_pool_herd>>
    /\ UNCHANGED <<tab1vars, herdvars, luckvars, mnfvars, fetchvars, rostervars,
                   uservars, uploadvars, cachevars, runvars>>

\* section 3: the Close Call Threshold slider and the pool's luck baseline
PoolLuckBaseline ==
    /\ pc = "luck"
    /\ \E t \in LuckThresholds :
          /\ luck_threshold' = t
          /\ df_pool_luck' = Some(pool_luck_of(df_global_stats, t))
    /\ pc' = "herd"
    /\ UNCHANGED <<error, messages, df_global_stats, df_pool_herd>>
    /\ UNCHANGED <<user_margin, luck_bucket, user_margins, luck_buckets, luck_counts>>
    /\ UNCHANGED <<tab1vars, herdvars, mnfvars, fetchvars, rostervars,
                   uservars, uploadvars, cachevars, runvars>>

\* section 5: the pool's herd baseline
PoolHerdTable ==
    /\ pc = "herd"
    /\ df_pool_herd' = Some(pool_herd_of(df_global_stats))
    /\ pc' = "done"
    /\ UNCHANGED <<error, messages, df_global_stats, df_pool_luck>>
    /\ UNCHANGED <<tab1vars, herdvars, luckvars, mnfvars, fetchvars, rostervars,
                   uservars, uploadvars, cachevars, runvars>>

NextPool == GetGlobalGameStats \/ PoolLuckBaseline \/ PoolHerdTable

SpecPool == InitPool /\ [][NextPool]_vars

\* the sum of the numerators of the quotients q(x), x in S, over one denominator
RECURSIVE SumNum(_, _)
SumNum(f, S) ==
    IF S = {} THEN 0
    ELSE LET x == CHOOSE y \in S : TRUE
         IN f[x].num + SumNum(f, S \ {x})

\* the completed games of the global game stats
Completed == {i \in DOMAIN df_global_stats : ~IsNull(df_global_stats[i].home_margin)}

Wit_C27_NoCompletedGame ==
    /\ pc = "done"
    /\ Len(df_global_stats) = 1
    /\ Completed = {}
    /\ Val(df_pool_luck) = <<>>


\* ------------------------------------------------------------ uploader: a run of upload_pool_data
\* a participant row of a Week sheet: the name in column 3 and whether the
\* status in column 2 says "late"; every pick cell names the column's home team
SheetRowCells == {[username |-> "ann", late |-> FALSE], [username |-> "ann", late |-> TRUE],
                  [username |-> "bob", late |-> FALSE]}

\* a valid game column: its teams and whether its cells convert without error
SheetCol(home, away, ok) == [home_team |-> home, away_team |-> away, data_ok |-> ok]

\* the valid game columns of a sheet: one game, one game with a data error, two
\* games in either order, the same game in two columns, a data error and a game
SheetColumns ==
    {<<SheetCol("KC", "BUF", TRUE)>>,
     <<SheetCol("KC", "BUF", FALSE)>>,
     <<SheetCol("KC", "BUF", TRUE), SheetCol("BUF", "KC", TRUE)>>,
     <<SheetCol("BUF", "KC", TRUE), SheetCol("KC", "BUF", TRUE)>>,
     <<SheetCol("KC", "BUF", TRUE), SheetCol("KC", "BUF", TRUE)>>,
     <<SheetCol("KC", "BUF", FALSE), SheetCol("BUF", "KC", TRUE)>>}

WeekSheets ==
    {[rows |-> r, cols |-> c] :
        r \in UNION {[1..n -> SheetRowCells] : n \in 0..MaxSheetRows},
        c \in SheetColumns}

\* the game_payload of column c of the sheet, without its scores
run_game_payload(sheet, c) ==
    [season |-> 2015, week |-> 1,
     home_team_id |-> sheet.cols[c].home_team,
     away_team_id |-> sheet.cols[c].away_team,
     mnf |-> (c = Len(sheet.cols))]

\* on_conflict="season,week,home_team_id,away_team_id"
GameKey(g) == <<g.season, g.week, g.home_team_id, g.away_team_id>>

\* the rows of the game table that conflict with the payload
game_conflict(table, payload) ==
    {i \in DOMAIN table : GameKey(table[i]) = GameKey(payload)}

\* the game_id of the row the upsert writes: the conflicting row's, or a new one
upsert_game_id(table, payload) ==
    IF game_conflict(table, payload) = {} THEN Len(table) + 1
    ELSE CHOOSE i \in game_conflict(table, payload) : TRUE

\* table("game").upsert(game_payload, on_conflict=...)
upsert_game(table, payload) ==
    IF game_conflict(table, payload) = {}
    THEN Append(table, payload @@ [game_id |-> Len(table) + 1])
    ELSE [i \in DOMAIN table |->
            IF i \in game_conflict(table, payload)
            THEN payload @@ [game_id |-> i] ELSE table[i]]

\* a mutant of col_to_game_id_after: the id is taken although no row came back
col_to_game_id_always(map, c, outcome, id) ==
    IF outcome \in {"ok", "norow"} THEN (c :> id) @@ map ELSE map

\* if res.data: col_to_game_id[col_idx] = res.data[0]['game_id']
col_to_game_id_after(map, c, outcome, id) ==
    IF outcome = "ok" THEN (c :> id) @@ map ELSE map

\* picks_to_upsert of the sheet: row by row, one pick per game column that has
\* a game_id
picks_of(sheet, map) ==
    LET R == Len(sheet.rows)
        C == Len(sheet.cols)
        cells == [k \in 1..(R * C) |->
                    [row |-> sheet.rows[((k - 1) \div C) + 1], col |-> ((k - 1) % C) + 1]]
        HasGame(x) == x.col \in DOMAIN map
        kept == SelectSeq(cells, HasGame)
    IN [k \in DOMAIN kept |->
          [username |-> kept[k].row.username,
           game_id |-> map[kept[k].col],
           pick_home |-> TRUE,
           pick_made |-> TRUE,
           pick_overwritten |-> kept[k].row.late]]

\* a mutant of upsert_pick: the row is inserted beside the one it conflicts with
insert_pick(table, row) == table \cup {row}

\* one row of table("pick").upsert(..., on_conflict="username,game_id")
upsert_pick(table, row) ==
    {p \in table : ~(p.username = row.username /\ p.game_id = row.game_id)} \cup {row}

\* the batch applied row by row
RECURSIVE upsert_picks(_, _)
upsert_picks(table, batch) ==
    IF batch = <<>> THEN table
    ELSE upsert_picks(upsert_pick(table, Head(batch)), Tail(batch))

InitRun ==
    /\ pc = "start"
    /\ error = "none"
    /\ messages = {}
    /\ Tab1Idle /\ HerdIdle /\ LuckIdle /\ MnfIdle /\ FetchIdle /\ RosterIdle
    /\ UserIdle /\ UploadIdle /\ CacheIdle /\ PoolIdle /\ RunIdle

\* upload_pool_data(workbook_path, season_year) opens a workbook of one Week sheet
OpenWorkbook ==
    /\ pc = "start"
    /\ \E sheet \in WeekSheets : week_sheet' = Some(sheet)
    /\ pc' = "users"
    /\ UNCHANGED <<error, messages, pick, users_upsert, game_upserts, col_to_game_id,
                   picks_to_upsert>>
    /\ UNCHANGED <<tab1vars, herdvars, luckvars, mnfvars, fetchvars, rostervars,
                   uservars, uploadvars, cachevars, poolvars>>

\* section 1: the usernames of the sheet are upserted in one call; the run
\* returns when the call raises, and no call is made without a username
UpsertUsers ==
    /\ pc = "users"
    /\ LET names == {Val(week_sheet).rows[i].username : i \in DOMAIN Val(week_sheet).rows}
       IN IF names = {}
          THEN /\ pc' = "games"
               /\ UNCHANGED <<User, users_upsert>>
          ELSE \/ /\ User' = User \cup names
                  /\ users_upsert' = "ok"
                  /\ pc' = "games"
               \/ /\ users_upsert' = "fail"
                  /\ pc' = "end"
                  /\ UNCHANGED User
    /\ UNCHANGED <<error, messages, client, user_list, week_sheet, pick, game_upserts,
                   col_to_game_id, picks_to_upsert>>
    /\ UNCHANGED <<tab1vars, herdvars, luckvars, mnfvars, fetchvars,
                   uservars, uploadvars, cachevars, poolvars>>

\* section B, one game column: skipped on a data error; else upserted, and the
\* call returns the row ("ok"), returns no row ("norow") or raises ("fail")
UpsertGameColumn ==
    /\ pc = "games"
    /\ LET sheet == Val(week_sheet)
           c == Len(game_upserts) + 1
           payload == run_game_payload(sheet, c)
           id == upsert_game_id(game, payload)
       IN /\ IF ~sheet.cols[c].data_ok
             THEN /\ game_upserts' = Append(game_upserts, [outcome |-> "skipped", game_id |-> 0])
                  /\ UNCHANGED <<game, col_to_game_id>>
             ELSE \E outcome \in {"ok", "norow", "fail"} :
                     /\ game' = IF outcome = "fail" THEN game ELSE upsert_game(game, payload)
                     /\ col_to_game_id' = col_to_game_id_after(col_to_game_id, c, outcome, id)
                     /\ game_upserts' = Append(game_upserts,
                                               [outcome |-> outcome,
                                                game_id |-> IF outcome = "ok" THEN id ELSE 0])
          /\ pc' = IF c = Len(sheet.cols) THEN "picks" ELSE "games"
    /\ UNCHANGED <<error, messages, user_id, df_user, df_user_stats, week_sheet, pick,
                   users_upsert, picks_to_upsert>>
    /\ UNCHANGED <<tab1vars, herdvars, luckvars, mnfvars, fetchvars, rostervars,
                   uploadvars, cachevars, poolvars>>

\* section C: the picks of the sheet are upserted in one call, which is applied
\* whole or raises; no call is made for an empty batch
UpsertPicks ==
    /\ pc = "picks"
    /\ LET batch == picks_of(Val(week_sheet), col_to_game_id)
       IN /\ picks_to_upsert' = Some(batch)
          /\ IF batch = <<>> THEN UNCHANGED pick
             ELSE \/ pick' = upsert_picks(pick, batch)
                  \/ UNCHANGED pick
    /\ pc' = "end"
    /\ UNCHANGED <<error, messages, week_sheet, users_upsert, game_upserts, col_to_game_id>>
    /\ UNCHANGED <<tab1vars, herdvars, luckvars, mnfvars, fetchvars, rostervars,
                   uservars, uploadvars, cachevars, poolvars>>

\* the script is run again, on the same workbook or another; the store stays
RunAgain ==
    /\ pc = "end"
    /\ pc' = "start"
    /\ week_sheet' = Null
    /\ users_upsert' = "none"
    /\ game_upserts' = <<>>
    /\ col_to_game_id' = <<>>
    /\ picks_to_upsert' = Null
    /\ UNCHANGED <<error, messages, pick>>
    /\ UNCHANGED <<tab1vars, herdvars, luckvars, mnfvars, fetchvars, rostervars,
                   uservars, uploadvars, cachevars, poolvars>>

NextRun == OpenWorkbook \/ UpsertUsers \/ UpsertGameColumn \/ UpsertPicks \/ RunAgain

SpecRun == InitRun /\ [][NextRun]_vars

\* C24: after any sequence of runs, re-runs of a workbook and sheets that list
\* a username twice included, the store holds at most one game per (season,
\* week, home_team_id, away_team_id) and at most one pick, so at most one
\* non-overwritten pick, per (username, game_id).
Thm_C24_OneRowPerKey ==
    /\ \A i, j \in DOMAIN game : GameKey(game[i]) = GameKey(game[j]) => i = j
    /\ \A p, q \in pick :
          (p.username = q.username /\ p.game_id = q.game_id) => p = q
    /\ \A p \in pick :
          Cardinality({q \in pick : /\ q.username = p.username
                                    /\ q.game_id = p.game_id
                                    /\ ~q.pick_overwritten}) <= 1

\* a sheet that lists ann on time and then late has been applied to a store
\* that held ann's pick on time and bob's pick from an earlier run
Wit_C24_SameNameTwice ==
    /\ pc = "end" /\ ~IsNull(picks_to_upsert)
    /\ Val(week_sheet).rows = <<[username |-> "ann", late |-> FALSE],
                                [username |-> "ann", late |-> TRUE]>>
    /\ Len(Val(picks_to_upsert)) = 2
    /\ Len(game) = 1
    /\ {[username |-> p.username, late |-> p.pick_overwritten] : p \in pick}
          = {[username |-> "ann", late |-> TRUE], [username |-> "bob", late |-> FALSE]}

\* the game ids the successful game upserts of the run returned
ReturnedIds ==
    {game_upserts[c].game_id : c \in {d \in DOMAIN game_upserts : game_upserts[d].outcome = "ok"}}

\* the picks sent in the run reference returned game ids only, one per row and
\* successful column; a failed User upsert ends the run with no other call made
PicksReferenceReturnedGames ==
    /\ ~IsNull(picks_to_upsert) =>
          /\ \A k \in DOMAIN Val(picks_to_upsert) :
                Val(picks_to_upsert)[k].game_id \in ReturnedIds
          /\ Len(Val(picks_to_upsert))
                = Len(Val(week_sheet).rows)
                  * Cardinality({c \in DOMAIN game_upserts : game_upserts[c].outcome = "ok"})
    /\ \A c \in DOMAIN col_to_game_id :
          /\ game_upserts[c].outcome = "ok"
          /\ game_upserts[c].game_id = col_to_game_id[c]
    /\ users_upsert = "fail" =>
          pc = "end" /\ game_upserts = <<>> /\ IsNull(picks_to_upsert)

\* C26: in a run of upload_pool_data every pick sent to the store references a
\* game_id returned by a successful game upsert of the same sheet; a column
\* skipped for a data error, or whose upsert failed or returned no row, yields
\* no pick; and when the user upsert fails the run returns before any game or
\* pick is written.
Thm_C26_PicksFollowGames ==
    [][/\ PicksReferenceReturnedGames'
       /\ (users_upsert' = "fail" /\ users_upsert # "fail") =>
             (game' = game /\ pick' = pick /\ pc' = "end")
       /\ users_upsert = "fail" =>
             (game' = game /\ pick' = pick /\ pc' = "start")]_vars

\* one row and two columns: the first upsert returned game 1, the second
\* raised, and the one pick sent references game 1
Wit_C26_SecondColumnFailed ==
    /\ pc = "end" /\ ~IsNull(picks_to_upsert)
    /\ Len(Val(week_sheet).rows) = 1
    /\ game_upserts = <<[outcome |-> "ok", game_id |-> 1], [outcome |-> "fail", game_id |-> 0]>>
    /\ Len(Val(picks_to_upsert)) = 1
    /\ Val(picks_to_upsert)[1].game_id = 1
    /\ \E p \in pick : p.game_id = 1

====
